---- MODULE Spec2Model ----
(***************************************************************************)
(* A model of rbrb: the sparse input store (src/src/inputs.rs), the        *)
(* exponential snapshot retention (src/src/exponential_keeping.rs) and the *)
(* request-driven session driver (src/src/lib.rs).                         *)
(***************************************************************************)
EXTENDS Integers, Sequences, FiniteSets, TLC

(***************************************************************************)
(* Bounds of the model.                                                    *)
(***************************************************************************)
\* Largest value the abstract shared clock reaches (in duration units).
MaxElapsed == 4
\* Largest frame the stand-alone input store is driven to.
MaxStoreFrame == 3
\* Largest number of entries of a batch given to the stand-alone input store.
MaxBatch == 2
\* Width in bits of the model's unsigned integers (u32 in the source).
IntBits == 8
\* The last instant of the stand-alone clock.
MaxNow == 4
\* The last instant of the clock of a session, the latest time it reports
\* and the greatest magnitude of its drift.
MaxRealtimeNow == 3
MaxRealtimeElapsed == 2
MaxRealtimeDrift == 1
\* The greatest magnitude of the clock's drift.
MaxDrift == 2
\* The greatest small horizon kept_set is called with.
MaxTotal == 40
\* The greatest distance between the two horizons whose kept sets are compared.
MaxIncrement == 24
\* The greatest small numerator and the greatest small denominator of a
\* call of div_duration.
MaxNumerator == 16
MaxDenominator == 4
MaxRecvFrame == 1
MaxPluginFrame == 1
\* The last instant of the stand-alone round-trip tracker.
MaxQualityNow == 11
\* The most pings one tracker has outstanding, and the most pongs it owes.
MaxOutgoing == 1
MaxPongQueue == 1
\* The most datagrams a socket holds, and the last value of the clock, in the
\* runs that watch the socket.
MaxPending == 1
MaxWireElapsed == 2
\* The last instant of the stand-alone Interval and its longest period.
MaxIntervalNow == 7
MaxEvery == 3

(***************************************************************************)
(* Configuration of the sessions (SessionBuilder options).                 *)
(***************************************************************************)
\* SessionBuilder::step_size, in duration units.
step_size == 1
\* SessionBuilder::default_inputs.
default_inputs == "D"
\* The serialized inputs a host writes on CaptureLocalInput.
InputValues == {"D", "A"}
\* What the player at peer p does at a frame: the bytes the host of p writes
\* when it is asked for the local input of that frame.
host_input(p, frame) ==
    IF p = 0 THEN (IF frame \in {2, 3} THEN "A" ELSE "D")
    ELSE (IF frame \in {1, 2} THEN "A" ELSE "D")
\* The break values a handler may return.
BreakValues == {"b1", "b2"}
\* The addresses of the peers; a peer's local player id is its index.
Peers == {0, 1}

Max(S) == CHOOSE x \in S : \A y \in S : y <= x
Min(S) == CHOOSE x \in S : \A y \in S : x <= y

\* BTreeMap::remove
MapRemove(m, k) == [x \in DOMAIN m \ {k} |-> m[x]]
\* BTreeMap::insert (overwrites)
MapInsert(m, k, v) == [x \in DOMAIN m \cup {k} |-> IF x = k THEN v ELSE m[x]]
EmptyMap == [x \in {} |-> 0]

(***************************************************************************)
(* inputs.rs: Confirmation<T> and Option<Confirmation<T>>                  *)
(***************************************************************************)
Confirmed(v) == [tag |-> "Confirmed", val |-> v]
Unconfirmed(v) == [tag |-> "Unconfirmed", val |-> v]
None == [tag |-> "None", val |-> "none"]

\* Confirmation::is_confirmed
is_confirmed(c) == c.tag = "Confirmed"

(***************************************************************************)
(* inputs.rs: SparseInputs, a record [map, next_compact]                   *)
(***************************************************************************)
\* impl Default for SparseInputs
SparseDefault == [map |-> EmptyMap, next_compact |-> 0]

\* Variants of SparseInputs::at that the properties must tell from it:
\* the value of the smallest key instead of the greatest key <= frame,
at_oldest(s, frame) ==
    LET before == {k \in DOMAIN s.map : k <= frame}
    IN  IF before = {} THEN None
        ELSE IF \E k \in DOMAIN s.map : k >= frame THEN Confirmed(s.map[Min(before)])
        ELSE Unconfirmed(s.map[Min(before)])

\* and Confirmed only when a key strictly after the frame exists.
at_later_only(s, frame) ==
    LET before == {k \in DOMAIN s.map : k <= frame}
    IN  IF before = {} THEN None
        ELSE IF \E k \in DOMAIN s.map : k > frame THEN Confirmed(s.map[Max(before)])
        ELSE Unconfirmed(s.map[Max(before)])

\* SparseInputs::at
at(s, frame) ==
    LET before == {k \in DOMAIN s.map : k <= frame}     \* range(..=frame)
        after == {k \in DOMAIN s.map : k >= frame}      \* range(frame..)
    IN  IF before = {} THEN None
        ELSE LET before_frame == Max(before)
                 before_value == s.map[before_frame]
             IN  IF before_frame = frame THEN Confirmed(before_value)
                 ELSE IF after # {} THEN Confirmed(before_value)
                 ELSE Unconfirmed(before_value)

\* A variant of SparseInputs::compact that removes every key but the last one
\* that has a predecessor, whatever its value.
RECURSIVE compact_unchecked(_)
compact_unchecked(s) ==
    LET at_or_after == {k \in DOMAIN s.map : k >= s.next_compact}
    IN  IF at_or_after = {} THEN s
        ELSE LET next_frame == Min(at_or_after)
                 before == {k \in DOMAIN s.map : k < s.next_compact}
             IN  IF at_or_after \ {next_frame} = {} THEN s
                 ELSE compact_unchecked([map |-> IF before # {}
                                                 THEN MapRemove(s.map, next_frame)
                                                 ELSE s.map,
                                         next_compact |-> next_frame + 1])

\* A variant of SparseInputs::compact that goes on to the newest key.
RECURSIVE compact_to_end(_)
compact_to_end(s) ==
    LET at_or_after == {k \in DOMAIN s.map : k >= s.next_compact}
    IN  IF at_or_after = {} THEN s
        ELSE LET next_frame == Min(at_or_after)
                 next_input == s.map[next_frame]
                 before == {k \in DOMAIN s.map : k < s.next_compact}
             IN  compact_to_end([map |-> IF before # {} /\ s.map[Max(before)] = next_input
                                         THEN MapRemove(s.map, next_frame)
                                         ELSE s.map,
                                 next_compact |-> next_frame + 1])

\* SparseInputs::compact
RECURSIVE compact(_)
compact(s) ==
    LET at_or_after == {k \in DOMAIN s.map : k >= s.next_compact}
    IN  IF at_or_after = {} THEN s
        ELSE LET next_frame == Min(at_or_after)
                 next_input == s.map[next_frame]
                 before == {k \in DOMAIN s.map : k < s.next_compact}
             IN  IF at_or_after \ {next_frame} = {} THEN s
                 ELSE compact([map |-> IF before # {} /\ s.map[Max(before)] = next_input
                                       THEN MapRemove(s.map, next_frame)
                                       ELSE s.map,
                               next_compact |-> next_frame + 1])

\* A variant of SparseInputs::capture_into that hands out a buffer the map
\* does not keep.
sparse_capture_dropped(s, frame, value) ==
    [ok |-> frame \notin DOMAIN s.map, sparse |-> s]

\* SparseInputs::capture_into followed by the host's write of `value` into
\* the returned buffer; [ok |-> FALSE] is the None return.
sparse_capture_into(s, frame, value) ==
    IF frame \in DOMAIN s.map
    THEN [ok |-> FALSE, sparse |-> s]
    ELSE LET c == compact(s)
         IN  [ok |-> TRUE,
              sparse |-> [map |-> MapInsert(c.map, frame, value),
                          next_compact |-> c.next_compact]]

(***************************************************************************)
(* inputs.rs: InputStorage; `inputs` is a function PlayerId -> SparseInputs *)
(* on the players that have a map.                                         *)
(***************************************************************************)
\* A variant of InputStorage::sparse_mut that creates the map without the
\* default input at Frame(0).
sparse_mut_empty(inputs, id) ==
    IF id \in DOMAIN inputs THEN inputs
    ELSE MapInsert(inputs, id, [map |-> EmptyMap, next_compact |-> 0])

\* InputStorage::sparse_mut
sparse_mut(inputs, id) ==
    IF id \in DOMAIN inputs THEN inputs
    ELSE MapInsert(inputs, id,
                   [map |-> MapInsert(EmptyMap, 0, default_inputs), next_compact |-> 0])

\* A variant of InputStorage::capture_into without the test of Frame(0).
capture_into_any_frame(inputs, frame, local_id, value) ==
    LET created == sparse_mut(inputs, local_id)
        r == sparse_capture_into(created[local_id], frame, value)
    IN  [ok |-> r.ok, inputs |-> MapInsert(created, local_id, r.sparse)]

\* InputStorage::capture_into followed by the host's write.
capture_into(inputs, frame, local_id, value) ==
    IF frame = 0 THEN [ok |-> FALSE, inputs |-> inputs]
    ELSE LET created == sparse_mut(inputs, local_id)
             r == sparse_capture_into(created[local_id], frame, value)
         IN  [ok |-> r.ok, inputs |-> MapInsert(created, local_id, r.sparse)]

\* PlayerInputs built by InputStorage::at_frame; the empty map stands for None.
at_frame(inputs, frame) ==
    LET have == {pl \in DOMAIN inputs : at(inputs[pl], frame) # None}
    IN  [pl \in have |-> at(inputs[pl], frame)]

\* PlayerInputs::is_fully_populated
is_fully_populated(pi, remote_count) == Cardinality(DOMAIN pi) = remote_count + 1

\* A variant of PlayerInputs::is_fully_confirmed that does not look at the tags.
is_populated_only(pi, remote_count) == Cardinality(DOMAIN pi) = remote_count + 1

\* PlayerInputs::is_fully_confirmed
is_fully_confirmed(pi, remote_count) ==
    is_fully_populated(pi, remote_count) /\ \A pl \in DOMAIN pi : is_confirmed(pi[pl])

\* The batch InputStorage::player_since_frame returns (after sparse_mut).
player_since_frame(inputs, player_id, frame) ==
    LET m == sparse_mut(inputs, player_id)[player_id].map
    IN  [k \in {k \in DOMAIN m : k >= frame} |-> m[k]]

\* A variant of InputStorage::merge_remote in which the last writer wins.
merge_overwrite(inputs, player, batch) ==
    IF DOMAIN batch = {} THEN inputs
    ELSE LET old == IF player \in DOMAIN inputs THEN inputs[player] ELSE SparseDefault
             merged == [k \in DOMAIN old.map \cup DOMAIN batch |->
                           IF k \in DOMAIN batch THEN batch[k] ELSE old.map[k]]
         IN  MapInsert(inputs, player, [map |-> merged, next_compact |-> old.next_compact])

\* InputStorage::merge_remote
merge_remote(inputs, player, batch) ==
    IF DOMAIN batch = {} THEN inputs
    ELSE LET old == IF player \in DOMAIN inputs THEN inputs[player] ELSE SparseDefault
             merged == [k \in DOMAIN old.map \cup DOMAIN batch |->
                           IF k \in DOMAIN old.map THEN old.map[k] ELSE batch[k]]
         IN  MapInsert(inputs, player, [map |-> merged, next_compact |-> old.next_compact])

(***************************************************************************)
(* exponential_keeping.rs                                                  *)
(***************************************************************************)
\* u32::is_power_of_two
is_power_of_two(n) == \E k \in 0..(IntBits - 1) : 2^k = n

\* u32::next_power_of_two (the smallest power of two >= n; 1 for n = 0)
next_power_of_two(n) == Min({2^k : k \in {j \in 0..(IntBits - 1) : 2^j >= n}})

\* A variant of kept_set: the two newest frames only.
kept_newest(total) == {n \in 0..(total - 1) : n + 2 >= total}

RECURSIVE kept_set(_)
RECURSIVE naive_kept_set(_)
\* exponential_keeping::naive_kept_set
naive_kept_set(total) ==
    IF total = 0 THEN {}
    ELSE IF total = 1 THEN {0}
    ELSE {n * 2 : n \in kept_set(total \div 2)} \cup {total - 1}

\* Variants of kept_set: without the power of two it inserts, with the test
\* of total.is_power_of_two() inverted, and with total / 2 inserted as it is.
kept_naive_only(total) == naive_kept_set(total)
kept_insert_inverted(total) ==
    naive_kept_set(total) \cup
        (IF is_power_of_two(total) THEN {next_power_of_two(total \div 2)} ELSE {})
kept_insert_half(total) ==
    naive_kept_set(total) \cup (IF ~is_power_of_two(total) THEN {total \div 2} ELSE {})

\* exponential_keeping::kept_set
kept_set(total) ==
    naive_kept_set(total) \cup
        (IF ~is_power_of_two(total) THEN {next_power_of_two(total \div 2)} ELSE {})

(***************************************************************************)
(* utils/mod.rs: div_duration, the binary search over u32                  *)
(***************************************************************************)
\* core::u32::MAX at the model's width
U32_MAX == 2^IntBits - 1

\* Duration::MAX at the model's width: a Duration is wider than a u32.
DURATION_MAX == 2^(2 * IntBits) - 1

\* The panic of `denominator * mid` ("overflow when multiplying duration by
\* scalar"), in place of a result.
MulOverflow == <<-1, -1>>

RECURSIVE div_search(_, _, _, _)
div_search(numerator, denominator, min, max) ==
    IF max - min > 1
    THEN LET mid == min + (max - min) \div 2
         IN  IF denominator * mid > DURATION_MAX THEN MulOverflow
             ELSE IF denominator * mid = numerator THEN <<mid, 0>>
             ELSE IF denominator * mid > numerator
                  THEN div_search(numerator, denominator, min, mid)
                  ELSE div_search(numerator, denominator, mid, max)
    ELSE <<min, numerator - denominator * min>>

\* utils::div_duration
div_duration(numerator, denominator) == div_search(numerator, denominator, 0, U32_MAX)

(***************************************************************************)
(* lib.rs: FrameState, a record [frame, rem]; rem = 0 is FrameState::At    *)
(***************************************************************************)
\* Session::calculate_frame_state
calculate_frame_state(dur) ==
    LET d == div_duration(dur, step_size) IN [frame |-> d[1], rem |-> d[2]]

(***************************************************************************)
(* State.  Every session field is a function of the peer that owns the     *)
(* session.                                                                *)
(***************************************************************************)
VARIABLES
    sessions,           \* the peers on which a Session was started
    pc,                 \* where each session is inside next_request
    ret,                \* the result of each session's last next_request
    elapsed,            \* SharedClock::elapsed(): -1 is None
    confirmed_states,   \* Session::confirmed_states: Frame -> SerializedState
    inputs,             \* Session::inputs: PlayerId -> SparseInputs
    host_at,            \* Session::host_at
    unconfirmed,        \* Session::unconfirmed
    remote_unconfirmed, \* Session::remote_unconfirmed: PlayerId -> Frame
    host_state,         \* the host's simulation state (owned by the handler)
    nav,                \* locals of advance_confirmed_horizon: target frame, inputs
    network,            \* datagrams in flight between sessions
    request,            \* the last request the current call handed to the handler
    broke_on,           \* the request whose break ended the previous call, if any
    first_log,          \* every (frame, inputs) given with an Advance tagged First
    saved,              \* every (frame, bytes) written through a SaveTo
    horizon_moved,      \* whether the current (or last) call changed `unconfirmed`
    store,              \* a stand-alone InputStorage
    realtime,           \* the last realtime frame given to the stand-alone store
    last_op,            \* the last operation on the stand-alone store
    peer_frames,        \* the frames at which the peer without a session captured
    shared_clock,       \* a stand-alone SharedClock: state, drift, last_elapsed
    now,                \* Instant::now()
    clock_log,          \* the last operation on the stand-alone clock and what it returned
    kept_call,          \* a call of kept_set: its arguments and what it returned
    div_call,           \* a call of div_duration: its arguments and what it returned
    plugins,            \* each session's WarnRemoteMismatchedChecksum plugin
    recv_log,           \* the last datagram a session received and what it did
    clock_remotes,      \* SharedClock::remotes: SocketAddr -> NetworkQuality
    peer_horizons,      \* the frames the peer without a session announced as confirmed
    pending,            \* the datagrams each session's socket holds, oldest first
    wire,               \* what each session's socket was last handed by send_messages
    interval,           \* a stand-alone Interval and what its last call returned
    plugin_call         \* the last call on a stand-alone checksum plugin: its arguments and outcome

session_vars == <<sessions, pc, ret, elapsed, confirmed_states, inputs, host_at,
                  unconfirmed, remote_unconfirmed, host_state, nav, network,
                  request, broke_on, first_log, saved, horizon_moved>>
store_vars == <<store, realtime, last_op>>
clock_vars == <<shared_clock, now, clock_log>>
recv_vars == <<plugins, recv_log>>
wire_vars == <<peer_horizons, pending, wire>>
aux_vars == <<clock_vars, kept_call, div_call, recv_vars, clock_remotes, wire_vars, interval, plugin_call>>
vars == <<session_vars, store_vars, peer_frames, aux_vars>>

(***************************************************************************)
(* builder.rs                                                              *)
(***************************************************************************)
RECURSIVE SortedSeq(_)
SortedSeq(S) == IF S = {} THEN <<>> ELSE <<Min(S)>> \o SortedSeq(S \ {Min(S)})

\* SessionBuilder::remote_players of peer p: the other peers, in one shared order.
remote_players(p) == SortedSeq(Peers \ {p})

\* Session::player_addresses as SessionBuilder::start derives it.
player_addresses(p) ==
    [addr \in Peers \ {p} |->
        LET i == (CHOOSE j \in 1..Len(remote_players(p)) : remote_players(p)[j] = addr) - 1
        IN  IF i >= p THEN i + 1 ELSE i]

\* Session::send_to: the address of a player id.
address_of(p, player) == CHOOSE addr \in DOMAIN player_addresses(p) : player_addresses(p)[addr] = player

remote_count(p) == Cardinality(DOMAIN player_addresses(p))

(***************************************************************************)
(* lib.rs: Message, and the datagrams that carry it                        *)
(***************************************************************************)
InputsMsg(map) == [type |-> "Inputs", map |-> map, frame |-> 0]
UnconfirmedMsg(frame) == [type |-> "Unconfirmed", map |-> EmptyMap, frame |-> frame]
Datagram(to, from, body) == [to |-> to, from |-> from, body |-> body]

MaxClockFrame == MaxElapsed \div step_size

(***************************************************************************)
(* A peer q on which no session is modelled runs the same code: its host   *)
(* captured q's local input at the frames of peer_frames, in order, and    *)
(* its send_messages sends what player_since_frame returns.                *)
(***************************************************************************)
\* The InputStorage of q once its clock has passed frame m.
RECURSIVE peer_inputs(_, _)
peer_inputs(q, m) ==
    IF m = 0 THEN sparse_mut(EmptyMap, q)
    ELSE IF m \in peer_frames
         THEN capture_into(peer_inputs(q, m - 1), m, q, host_input(q, m)).inputs
         ELSE peer_inputs(q, m - 1)

\* What q may have sent to p, delayed and reordered at will: its inputs since
\* a frame it was told is p's last confirmed one, at any moment of its run.
ForeignDatagrams(p) ==
    UNION {{Datagram(p, q, InputsMsg(player_since_frame(peer_inputs(q, m), q, unc)))
                : m \in 0..MaxClockFrame, unc \in 0..(unconfirmed[p] - 1)}
           \cup {Datagram(p, q, UnconfirmedMsg(f)) : f \in peer_horizons}
            : q \in Peers \ (sessions \cup {p})}

(***************************************************************************)
(* request_handler.rs / lib.rs: requests, handler results, next_request    *)
(***************************************************************************)
\* What a handler returns: continue, or a break value.
HandlerResults == {"continue"} \cup BreakValues

\* No request's break ended the previous call.
NoBreak == [req |-> <<"none", 0>>, fresh |-> FALSE]
NoRequest == [kind |-> "none", frame |-> 0, data |-> <<>>, brk |-> "continue", after |-> NoBreak]

FlowBreakSome(m) == [flow |-> "Break", some |-> TRUE, val |-> m]
FlowBreakNone == [flow |-> "Break", some |-> FALSE, val |-> "none"]
FlowContinue == [flow |-> "Continue", some |-> FALSE, val |-> "none"]

Running == [tag |-> "running", val |-> "none"]
Panicked(why) == [tag |-> "panic", val |-> why]

\* A variant of Session::next_request that does not invert the flow.
next_request_as_is(flow) ==
    IF flow.flow = "Break"
    THEN [tag |-> "Break", val |-> "()"]
    ELSE [tag |-> "Continue", val |-> flow.val]

\* Session::next_request: the result for a result of next_request_flow_inverted.
next_request(flow) ==
    IF flow.flow = "Break" /\ flow.some
    THEN [tag |-> "Continue", val |-> flow.val]
    ELSE [tag |-> "Break", val |-> "()"]

\* A request handed to the handler, which answers h; `after` is the record
\* of the break that ended the previous call, as it stood before this request.
NewRequest(p, kind, frame, data, h) ==
    [kind |-> kind, frame |-> frame, data |-> data, brk |-> h, after |-> broke_on[p]]

\* The request whose break ended the previous call, and whether the call
\* that followed has issued no request yet.
BrokeAfter(p, kind, frame, h) ==
    IF h = "continue"
    THEN [broke_on[p] EXCEPT !.fresh = FALSE]
    ELSE [req |-> <<kind, frame>>, fresh |-> TRUE]

\* The `?` after a request: a break ends the call with Break(Some(b)).
PcAfter(h, next) == IF h = "continue" THEN next ELSE "top"
RetAfter(h) == IF h = "continue" THEN Running ELSE next_request(FlowBreakSome(h))

(***************************************************************************)
(* lib.rs: Session helpers                                                 *)
(***************************************************************************)
\* Session::host_frame
host_frame(p) == calculate_frame_state(host_at[p])

\* Session::clock_frame, when the clock returns Some
clock_frame(p) == calculate_frame_state(elapsed[p]).frame

\* A variant of Session::should_save that saves every frame not yet stored.
should_save_all(p, frame) == frame \notin DOMAIN confirmed_states[p]

\* Session::should_save
should_save(p, frame) ==
    frame \in kept_set(unconfirmed[p]) /\ frame \notin DOMAIN confirmed_states[p]

\* A variant of the snapshot navigate_to rolls back to: the oldest one.
oldest_frame(states, target) == Min({k \in DOMAIN states : k <= target})

\* navigate_to: confirmed_states.range(..=frame).next_back()
rollback_frame(states, target) == Max({k \in DOMAIN states : k <= target})

\* A variant of Session::clear_states that purges nothing.
clear_states_none(states, unc) == states

\* Session::clear_states
clear_states(states, unc) == [k \in DOMAIN states \cap kept_set(unc) |-> states[k]]

\* A variant of the `confirmed` field that never says First.
advance_confirmation_untagged(pi, remotes, first_confirm) ==
    IF is_fully_confirmed(pi, remotes) THEN "Subsequent" ELSE "Unconfirmed"

\* The `confirmed` field Session::advance_with computes.
advance_confirmation(pi, remotes, first_confirm) ==
    IF first_confirm THEN "First"
    ELSE IF is_fully_confirmed(pi, remotes) THEN "Subsequent"
    ELSE "Unconfirmed"

\* The example host's Advance: the state is the history of the inputs applied.
host_advance(state, pi) == Append(state, [pl \in DOMAIN pi |-> pi[pl].val])

AdvanceData(p, pi, first_confirm) ==
    [amount |-> step_size, inputs |-> pi,
     confirmed |-> advance_confirmation(pi, remote_count(p), first_confirm)]

(***************************************************************************)
(* Initial state: SessionBuilder::start on every peer of S.                *)
(***************************************************************************)
NoNav == [target |-> 0, inputs |-> EmptyMap]

\* A socket that keeps no record of what it is handed, and one that does.
Untapped == [tapped |-> FALSE, fired |-> FALSE, datagrams |-> {}]
Tapped == [tapped |-> TRUE, fired |-> FALSE, datagrams |-> {}]

IdleWire ==
    /\ peer_horizons = {}
    /\ pending = [p \in Peers |-> <<>>]
    /\ wire = [p \in Peers |-> Untapped]

InitSessions(S) ==
    /\ sessions = S
    /\ pc = [p \in Peers |-> IF p \in S THEN "top" ELSE "off"]
    /\ ret = [p \in Peers |-> [tag |-> "none", val |-> "none"]]
    /\ elapsed = [p \in Peers |-> -1]
    /\ confirmed_states = [p \in Peers |-> EmptyMap]
    /\ inputs = [p \in Peers |-> EmptyMap]
    /\ host_at = [p \in Peers |-> 0]
    /\ unconfirmed = [p \in Peers |-> 1]
    /\ remote_unconfirmed = [p \in Peers |-> EmptyMap]
    /\ host_state = [p \in Peers |-> <<>>]
    /\ nav = [p \in Peers |-> NoNav]
    /\ network = {}
    /\ request = [p \in Peers |-> NoRequest]
    /\ broke_on = [p \in Peers |-> NoBreak]
    /\ first_log = [p \in Peers |-> {}]
    /\ saved = [p \in Peers |-> {}]
    /\ horizon_moved = [p \in Peers |-> FALSE]

\* A stand-alone InputStorage::with_default(default_inputs), nothing done yet.
NoOp == [op |-> "none", player |-> 0, frame |-> 0, batch |-> EmptyMap,
         ok |-> FALSE, read |-> EmptyMap, before |-> EmptyMap]

InitStore ==
    /\ store = EmptyMap
    /\ realtime = 0
    /\ last_op = NoOp

(***************************************************************************)
(* How a step of next_request ends.                                        *)
(***************************************************************************)
\* The handler is given a request and answers h; on a break the `?` ends
\* the call, otherwise the driver goes on at `next`.
Issue(p, kind, frame, data, h, next) ==
    /\ request' = [request EXCEPT ![p] = NewRequest(p, kind, frame, data, h)]
    /\ broke_on' = [broke_on EXCEPT ![p] = BrokeAfter(p, kind, frame, h)]
    /\ pc' = [pc EXCEPT ![p] = PcAfter(h, next)]
    /\ ret' = [ret EXCEPT ![p] = RetAfter(h)]

\* The driver goes on at `next` without a request.
Goto(p, next) ==
    /\ request' = [request EXCEPT ![p] = NoRequest]
    /\ pc' = [pc EXCEPT ![p] = next]
    /\ ret' = [ret EXCEPT ![p] = Running]
    /\ UNCHANGED broke_on

\* next_request_flow_inverted returns `flow` without a handler break.
Return(p, flow) ==
    /\ request' = [request EXCEPT ![p] = NoRequest]
    /\ broke_on' = [broke_on EXCEPT ![p] = NoBreak]
    /\ pc' = [pc EXCEPT ![p] = "top"]
    /\ ret' = [ret EXCEPT ![p] = next_request(flow)]

\* A panic (assert, expect, unreachable!, unimplemented!, overflow check).
Panic(p, why) ==
    /\ request' = [request EXCEPT ![p] = NoRequest]
    /\ pc' = [pc EXCEPT ![p] = "panicked"]
    /\ ret' = [ret EXCEPT ![p] = Panicked(why)]
    /\ UNCHANGED broke_on

(***************************************************************************)
(* The shared clock, seen from the driver: elapsed() is None until the     *)
(* start instant and never decreases afterwards.                           *)
(***************************************************************************)
Tick(p) ==
    /\ p \in sessions
    /\ pc[p] # "panicked"
    /\ elapsed[p] < MaxElapsed
    /\ elapsed' = [elapsed EXCEPT ![p] = @ + 1]
    /\ UNCHANGED <<sessions, pc, ret, confirmed_states, inputs, host_at, unconfirmed,
                   remote_unconfirmed, host_state, nav, network, request, broke_on,
                   first_log, saved, horizon_moved, store_vars, peer_frames, aux_vars>>

(***************************************************************************)
(* Session::process_incoming_messages: one turn of its while loop that     *)
(* receives a datagram.                                                    *)
(***************************************************************************)
\* The body of the loop for the datagram m.
Receive(p, m) ==
    /\ LET player == player_addresses(p)[m.from]
           known == remote_unconfirmed[p]
       IN  /\ network' = network \ {m}
           /\ IF m.body.type = "Inputs"
              THEN /\ inputs' = [inputs EXCEPT ![p] = merge_remote(@, player, m.body.map)]
                   /\ UNCHANGED remote_unconfirmed
              ELSE /\ remote_unconfirmed' =
                       [remote_unconfirmed EXCEPT ![p] =
                           MapInsert(known, player,
                                     IF player \in DOMAIN known /\ known[player] > m.body.frame
                                     THEN known[player] ELSE m.body.frame)]
                   /\ UNCHANGED inputs
    /\ Goto(p, "top")
    /\ horizon_moved' = [horizon_moved EXCEPT ![p] = IF ret[p].tag = "running" THEN @ ELSE FALSE]
    /\ UNCHANGED <<sessions, elapsed, confirmed_states, host_at, unconfirmed,
                   host_state, nav, first_log, saved, store_vars, peer_frames,
                   clock_vars, kept_call, div_call, recv_vars, clock_remotes,
                   peer_horizons, wire, interval, plugin_call>>

\* A datagram reaches the session at the moment recv() is called.
ReceiveMessage(p) ==
    /\ p \in sessions
    /\ pc[p] = "top"
    /\ pending[p] = <<>>
    /\ \E m \in {d \in network : d.to = p} \cup ForeignDatagrams(p) : Receive(p, m)
    /\ UNCHANGED pending

\* A datagram reaches the socket of the session, whatever the session does.
Arrive(p) ==
    /\ p \in sessions
    /\ pc[p] # "panicked"
    /\ Len(pending[p]) < MaxPending
    /\ \E m \in ForeignDatagrams(p) : pending' = [pending EXCEPT ![p] = Append(@, m)]
    /\ UNCHANGED <<session_vars, store_vars, peer_frames, clock_vars, kept_call, div_call,
                   recv_vars, clock_remotes, peer_horizons, wire, interval, plugin_call>>

\* A variant of the test that ends the loop: it never waits for the socket
\* to be empty.
recv_none_always(p) == TRUE

\* socket.recv() returns None
recv_none(p) == pending[p] = <<>>

\* recv() returns the oldest datagram the socket holds.
SocketReceive(p) ==
    /\ p \in sessions
    /\ pc[p] = "top"
    /\ ~recv_none(p)
    /\ Receive(p, Head(pending[p]))
    /\ pending' = [pending EXCEPT ![p] = Tail(@)]

(***************************************************************************)
(* Session::send_messages                                                  *)
(***************************************************************************)
\* A variant of send_messages that sends every local entry to every player.
outgoing_everything(p) ==
    {Datagram(addr, p, InputsMsg(player_since_frame(inputs[p], p, 0)))
        : addr \in DOMAIN player_addresses(p)}
    \cup {Datagram(addr, p, UnconfirmedMsg(unconfirmed[p] - 1))
            : addr \in DOMAIN player_addresses(p)}

\* The datagrams send_messages hands to the socket when send_interval fires.
outgoing(p) ==
    {Datagram(address_of(p, player), p,
              InputsMsg(player_since_frame(inputs[p], p, remote_unconfirmed[p][player])))
        : player \in DOMAIN remote_unconfirmed[p]}
    \cup {Datagram(addr, p, UnconfirmedMsg(unconfirmed[p] - 1))
            : addr \in DOMAIN player_addresses(p)}

\* The input store after send_messages (player_since_frame calls sparse_mut).
inputs_after_send(p, fired) ==
    IF fired /\ DOMAIN remote_unconfirmed[p] # {} THEN sparse_mut(inputs[p], p) ELSE inputs[p]

\* Where the loop goes after capture_inputs: save_frame_zero has a request
\* to make only while the snapshot ring is empty.
AfterCapture(p) == IF DOMAIN confirmed_states[p] = {} THEN "save0" ELSE "horizon"

(***************************************************************************)
(* next_request_flow_inverted, once recv() returned None: send_messages,   *)
(* then capture_inputs.                                                    *)
(***************************************************************************)
SendAndCapture(p) ==
    /\ p \in sessions
    /\ pc[p] = "top"
    /\ recv_none(p)
    /\ \E fired \in BOOLEAN :
        LET net == network \cup (IF fired THEN {d \in outgoing(p) : d.to \in sessions} ELSE {})
            sent == inputs_after_send(p, fired)
            captured == capture_into(sent, clock_frame(p), p, host_input(p, clock_frame(p)))
        IN  /\ network' = net
            /\ wire' = [wire EXCEPT ![p] =
                            IF @.tapped
                            THEN [tapped |-> TRUE, fired |-> fired,
                                  datagrams |-> IF fired THEN outgoing(p) ELSE {}]
                            ELSE @]
            /\ IF elapsed[p] < 0
               THEN \* clock_frame()? is Break(None)
                    /\ inputs' = [inputs EXCEPT ![p] = sent]
                    /\ Return(p, FlowBreakNone)
               ELSE /\ inputs' = [inputs EXCEPT ![p] = captured.inputs]
                    /\ IF captured.ok
                       THEN \E h \in HandlerResults :
                                Issue(p, "CaptureLocalInput", clock_frame(p),
                                      host_input(p, clock_frame(p)), h, AfterCapture(p))
                       ELSE Goto(p, AfterCapture(p))
    /\ horizon_moved' = [horizon_moved EXCEPT ![p] = IF ret[p].tag = "running" THEN @ ELSE FALSE]
    /\ UNCHANGED <<sessions, elapsed, confirmed_states, host_at, unconfirmed,
                   remote_unconfirmed, host_state, nav, first_log, saved, store_vars, peer_frames,
                   clock_vars, kept_call, div_call, recv_vars, clock_remotes,
                   peer_horizons, pending, interval, plugin_call>>

(***************************************************************************)
(* Session::save_frame_zero                                                *)
(***************************************************************************)
SaveFrameZero(p) ==
    /\ p \in sessions
    /\ pc[p] = "save0"
    /\ IF DOMAIN confirmed_states[p] # {}
       THEN /\ Goto(p, "horizon")
            /\ UNCHANGED <<confirmed_states, saved>>
       ELSE IF host_frame(p) # [frame |-> 0, rem |-> 0]
       THEN \* assert_eq!(self.host_frame(), FrameState::At(Frame(0)))
            /\ Panic(p, "assert_eq host_frame")
            /\ UNCHANGED <<confirmed_states, saved>>
       ELSE \E h \in HandlerResults :
            /\ confirmed_states' = [confirmed_states EXCEPT ![p] = MapInsert(@, 0, host_state[p])]
            /\ saved' = [saved EXCEPT ![p] = @ \cup {<<0, host_state[p]>>}]
            /\ Issue(p, "SaveTo", 0, host_state[p], h, "horizon")
    /\ UNCHANGED <<sessions, elapsed, inputs, host_at, unconfirmed, remote_unconfirmed,
                   host_state, nav, network, first_log, horizon_moved, store_vars, peer_frames, aux_vars>>

(***************************************************************************)
(* Session::advance_confirmed_horizon: the head of one turn of its loop,   *)
(* up to the call of navigate_to.                                          *)
(***************************************************************************)
AdvanceConfirmedHorizon(p) ==
    /\ p \in sessions
    /\ pc[p] = "horizon"
    /\ LET last_confirmed == unconfirmed[p] - 1
           host == host_frame(p).frame
           pi == at_frame(inputs[p], last_confirmed)
       IN  IF elapsed[p] < 0
           THEN Return(p, FlowBreakNone) /\ UNCHANGED nav
           ELSE IF ~(host < clock_frame(p))
           THEN Goto(p, "step") /\ UNCHANGED nav
           ELSE \* host_frame.0 - last_confirmed.0 underflows when the host is
                \* behind last_confirmed: a panic with overflow checks, a wrap
                \* (and a warning) without.
                \E overflow_checks \in (IF host < last_confirmed THEN BOOLEAN ELSE {FALSE}) :
                IF overflow_checks
                THEN Panic(p, "attempt to subtract with overflow") /\ UNCHANGED nav
                ELSE IF DOMAIN pi = {} \/ ~is_fully_confirmed(pi, remote_count(p))
                THEN Goto(p, "step") /\ UNCHANGED nav
                ELSE /\ Goto(p, "navigate")
                     /\ nav' = [nav EXCEPT ![p] = [target |-> last_confirmed, inputs |-> pi]]
    /\ UNCHANGED <<sessions, elapsed, confirmed_states, inputs, host_at, unconfirmed,
                   remote_unconfirmed, host_state, network, first_log, saved, horizon_moved, store_vars, peer_frames, aux_vars>>

(***************************************************************************)
(* Session::navigate_to(nav.target), one request at a time.                *)
(***************************************************************************)
\* At the head of a turn of navigate_to's loop, with no SaveTo to make, or
\* just after the SaveTo of this turn.
AtNavigateMatch(p) ==
    \/ pc[p] = "navmove"
    \/ pc[p] = "navigate" /\ ~should_save(p, host_frame(p).frame)

\* The locals of advance_confirmed_horizon die with the call.
NavAfter(p, h) == IF h = "continue" THEN nav[p] ELSE NoNav

\* if self.should_save(current_frame) { clear_states(); SaveTo }
NavigateSave(p) ==
    /\ p \in sessions
    /\ pc[p] = "navigate"
    /\ should_save(p, host_frame(p).frame)
    /\ \E h \in HandlerResults :
        LET current_frame == host_frame(p).frame
        IN  /\ confirmed_states' =
                [confirmed_states EXCEPT ![p] =
                    MapInsert(clear_states(@, unconfirmed[p]), current_frame, host_state[p])]
            /\ saved' = [saved EXCEPT ![p] = @ \cup {<<current_frame, host_state[p]>>}]
            /\ Issue(p, "SaveTo", current_frame, host_state[p], h, "navmove")
            /\ nav' = [nav EXCEPT ![p] = NavAfter(p, h)]
    /\ UNCHANGED <<sessions, elapsed, inputs, host_at, unconfirmed, remote_unconfirmed,
                   host_state, network, first_log, horizon_moved, store_vars, peer_frames, aux_vars>>

\* match current_frame.cmp(&frame): Greater (LoadFrom) and Less (do_advance)
NavigateMove(p) ==
    /\ p \in sessions
    /\ AtNavigateMatch(p)
    /\ host_frame(p).frame # nav[p].target
    /\ LET current_frame == host_frame(p).frame
           stored == {k \in DOMAIN confirmed_states[p] : k <= nav[p].target}
           pi == at_frame(inputs[p], current_frame)
       IN  IF current_frame > nav[p].target
           THEN IF stored = {}
                THEN \* .expect("should have at least one confirmed state")
                     /\ Panic(p, "should have at least one confirmed state")
                     /\ nav' = [nav EXCEPT ![p] = NoNav]
                     /\ UNCHANGED <<host_at, host_state>>
                ELSE \E h \in HandlerResults :
                     LET roll_to == rollback_frame(confirmed_states[p], nav[p].target)
                         state == confirmed_states[p][roll_to]
                     IN  /\ Issue(p, "LoadFrom", roll_to,
                               [bytes |-> state, target |-> nav[p].target], h, "navigate")
                         /\ host_state' = [host_state EXCEPT ![p] = state]
                         /\ host_at' = [host_at EXCEPT ![p] = step_size * roll_to]
                         /\ nav' = [nav EXCEPT ![p] = NavAfter(p, h)]
           ELSE IF host_frame(p).rem # 0 \/ DOMAIN pi = {}
                THEN \* do_advance: unimplemented!("FrameState::After"), or
                     \* .expect("did not have inputs for frame")
                     /\ Panic(p, "did not have inputs for frame")
                     /\ nav' = [nav EXCEPT ![p] = NoNav]
                     /\ UNCHANGED <<host_at, host_state>>
                ELSE \E h \in HandlerResults :
                     /\ Issue(p, "Advance", current_frame, AdvanceData(p, pi, FALSE), h, "navigate")
                     /\ host_state' = [host_state EXCEPT ![p] = host_advance(@, pi)]
                     /\ host_at' = [host_at EXCEPT ![p] = @ + step_size]
                     /\ nav' = [nav EXCEPT ![p] = NavAfter(p, h)]
    /\ UNCHANGED <<sessions, elapsed, confirmed_states, inputs, unconfirmed,
                   remote_unconfirmed, network, first_log, saved, horizon_moved, store_vars, peer_frames, aux_vars>>

(***************************************************************************)
(* advance_confirmed_horizon once navigate_to returned (Ordering::Equal):  *)
(* advance_with(inputs, handler, step_size, true).always(unconfirmed += 1) *)
(***************************************************************************)
AdvanceFirst(p) ==
    /\ p \in sessions
    /\ AtNavigateMatch(p)
    /\ host_frame(p).frame = nav[p].target
    /\ \E h \in HandlerResults :
        Issue(p, "Advance", host_frame(p).frame, AdvanceData(p, nav[p].inputs, TRUE), h, "horizon")
    /\ host_state' = [host_state EXCEPT ![p] = host_advance(@, nav[p].inputs)]
    /\ host_at' = [host_at EXCEPT ![p] = @ + step_size]
    /\ unconfirmed' = [unconfirmed EXCEPT ![p] = @ + 1]
    /\ first_log' = [first_log EXCEPT ![p] =
                       @ \cup {<<nav[p].target,
                                 [pl \in DOMAIN nav[p].inputs |-> nav[p].inputs[pl].val]>>}]
    /\ nav' = [nav EXCEPT ![p] = NoNav]
    /\ horizon_moved' = [horizon_moved EXCEPT ![p] = TRUE]
    /\ UNCHANGED <<sessions, elapsed, confirmed_states, inputs, remote_unconfirmed,
                   network, saved, store_vars, peer_frames, aux_vars>>

(***************************************************************************)
(* Session::step_towards_realtime and Session::try_advance                 *)
(***************************************************************************)
StepTowardsRealtime(p) ==
    /\ p \in sessions
    /\ pc[p] = "step"
    /\ LET frame == host_frame(p)
           pi == at_frame(inputs[p], frame.frame)
       IN  IF elapsed[p] < 0
           THEN Return(p, FlowBreakNone) /\ UNCHANGED <<host_at, host_state>>
           ELSE IF frame.frame > clock_frame(p) \/ (frame.frame < clock_frame(p) /\ frame.rem # 0)
           THEN \* unreachable!("advanced too far"), or try_advance's
                \* unimplemented!("FrameState::After")
                Panic(p, "advanced too far") /\ UNCHANGED <<host_at, host_state>>
           ELSE IF frame.frame = clock_frame(p)
           THEN \* return Continue(false): the loop ends with Continue(())
                Return(p, FlowContinue) /\ UNCHANGED <<host_at, host_state>>
           ELSE IF DOMAIN pi = {}
           THEN \* try_advance has no inputs: the loop starts over
                Goto(p, "top") /\ UNCHANGED <<host_at, host_state>>
           ELSE \E h \in HandlerResults :
                /\ Issue(p, "Advance", frame.frame, AdvanceData(p, pi, FALSE), h, "top")
                /\ host_state' = [host_state EXCEPT ![p] = host_advance(@, pi)]
                /\ host_at' = [host_at EXCEPT ![p] = @ + step_size]
    /\ UNCHANGED <<sessions, elapsed, confirmed_states, inputs, unconfirmed,
                   remote_unconfirmed, nav, network, first_log, saved, horizon_moved, store_vars, peer_frames, aux_vars>>

(***************************************************************************)
(* utils/mod.rs: Signed<Duration>, a magnitude with a sign (zero has one   *)
(* too).  time.rs: SharedClock.  Instants and durations are counted in     *)
(* ticks of the model's clock.                                             *)
(***************************************************************************)
Pos(t) == [neg |-> FALSE, mag |-> t]
Neg(t) == [neg |-> TRUE, mag |-> t]

\* impl Add<Signed<U>> for Signed<T>
signed_add(a, b) ==
    IF a.neg = b.neg THEN [neg |-> a.neg, mag |-> a.mag + b.mag]
    ELSE IF a.mag > b.mag THEN [neg |-> a.neg, mag |-> a.mag - b.mag]
    ELSE [neg |-> b.neg, mag |-> b.mag - a.mag]

\* Signed::pos: -1 stands for None.
pos(a) == IF a.neg THEN -1 ELSE a.mag

\* time.rs duration_since(a, b)
duration_since(a, b) == IF a > b THEN Pos(a - b) ELSE Neg(b - a)

\* The least move of the start instant that update_start_time accepts
\* (Duration::from_millis(400)), in ticks.
min_start_move == 2
\* The most adjust_drift changes the drift by (max_change), in ticks.
max_change == 1

Synchronizing == [tag |-> "Synchronizing", at |-> 0]
Start(at_instant) == [tag |-> "Start", at |-> at_instant]

\* A variant of SharedClock::update_start_time that also accepts an earlier
\* start instant.
update_start_time_either_way(state, current, new_at) ==
    IF state.tag = "Start" /\
       (state.at < current \/ duration_since(state.at, new_at).mag < min_start_move)
    THEN [changed |-> FALSE, state |-> state]
    ELSE [changed |-> TRUE, state |-> Start(new_at)]

\* SharedClock::update_start_time, `current` being Instant::now()
update_start_time(state, current, new_at) ==
    IF state.tag = "Start" /\
       (\/ state.at < current
        \/ duration_since(state.at, new_at).mag < min_start_move
        \/ state.at > new_at)
    THEN [changed |-> FALSE, state |-> state]
    ELSE [changed |-> TRUE, state |-> Start(new_at)]

\* SharedClock::signed_elapsed: [some |-> FALSE] is None.
signed_elapsed(clock, current) ==
    IF clock.state.tag = "Synchronizing"
    THEN [some |-> FALSE, val |-> Pos(0)]
    ELSE [some |-> TRUE, val |-> signed_add(duration_since(current, clock.state.at), clock.drift)]

\* What SharedClock::elapsed would return without last_elapsed: -1 is None.
elapsed_correct(clock, current) ==
    IF signed_elapsed(clock, current).some THEN pos(signed_elapsed(clock, current).val) ELSE -1

\* A variant of SharedClock::elapsed that returns the corrected time as it is.
elapsed_unclamped(clock, current) ==
    LET correct == elapsed_correct(clock, current)
    IN  IF correct = -1 THEN [ret |-> -1, clock |-> clock]
        ELSE [ret |-> correct, clock |-> [clock EXCEPT !.last_elapsed = correct]]

\* SharedClock::elapsed: the result (-1 is None) and the clock after it.
clock_elapsed(clock, current) ==
    LET correct == elapsed_correct(clock, current)
        never_decrease == IF correct > clock.last_elapsed THEN correct ELSE clock.last_elapsed
    IN  IF correct = -1 THEN [ret |-> -1, clock |-> clock]
        ELSE [ret |-> never_decrease, clock |-> [clock EXCEPT !.last_elapsed = never_decrease]]

\* SharedClock::among_remotes
InitClock ==
    /\ shared_clock = [state |-> Synchronizing, drift |-> Pos(0), last_elapsed |-> 0]
    /\ now = 0
    /\ clock_log = [op |-> "none", ret |-> -1, correct |-> -1, last_some |-> -1,
                    prev_some |-> -1, changed |-> FALSE, old |-> Synchronizing, at_now |-> 0]

\* The start instants a message or a round-trip estimate can produce.
StartInstants == 0..(MaxNow + min_start_move)

\* The changes adjust_drift can make: delta.clamp(Neg(max_change), Pos(max_change))
DriftChanges == {Pos(c) : c \in 0..max_change} \cup {Neg(c) : c \in 0..max_change}

\* Time passes.
ClockTick ==
    /\ now < MaxNow
    /\ now' = now + 1
    /\ clock_log' = [clock_log EXCEPT !.op = "tick", !.changed = FALSE]
    /\ UNCHANGED <<shared_clock, session_vars, store_vars, peer_frames, kept_call, div_call, recv_vars, clock_remotes, wire_vars, interval, plugin_call>>

\* SharedClock::start_message while Synchronizing, once every remote has a
\* worst_case_rtt: update_start_time(Instant::now() + 10 * worst_rtt)
ClockStartMessage ==
    /\ shared_clock.state.tag = "Synchronizing"
    /\ \E confident_start_in \in 0..min_start_move :
        LET u == update_start_time(shared_clock.state, now, now + confident_start_in)
        IN  /\ shared_clock' = [shared_clock EXCEPT !.state = u.state]
            /\ clock_log' = [clock_log EXCEPT !.op = "start_message", !.changed = u.changed,
                                              !.old = shared_clock.state, !.at_now = now]
    /\ UNCHANGED <<now, session_vars, store_vars, peer_frames, kept_call, div_call, recv_vars, clock_remotes, wire_vars, interval, plugin_call>>

\* SharedClock::receive_message(from, ClockMessage::Elapsed(amt)) on `clock` at
\* the instant `current`: adjust_drift changes the drift by `change`, and
\* when the sender has an average_rtt the start moves towards `start_at`.
receive_elapsed(clock, current, change, has_rtt, start_at) ==
    LET adjusted == IF clock.state.tag = "Start"
                    THEN signed_add(clock.drift, change)
                    ELSE clock.drift
        u == IF has_rtt THEN update_start_time(clock.state, current, start_at)
             ELSE [changed |-> FALSE, state |-> clock.state]
    IN  [clock |-> [clock EXCEPT !.drift = adjusted, !.state = u.state],
         changed |-> u.changed]

\* SharedClock::receive_message(from, ClockMessage::Elapsed(amt)):
\* adjust_drift, then update_start_time when the sender has an average_rtt.
ClockReceiveElapsed ==
    /\ \E change \in DriftChanges, has_rtt \in BOOLEAN, start_at \in StartInstants :
        LET r == receive_elapsed(shared_clock, now, change, has_rtt, start_at)
        IN  /\ r.clock.drift.mag <= MaxDrift
            /\ shared_clock' = r.clock
            /\ clock_log' = [clock_log EXCEPT !.op = "Elapsed", !.changed = r.changed,
                                              !.old = shared_clock.state, !.at_now = now]
    /\ UNCHANGED <<now, session_vars, store_vars, peer_frames, kept_call, div_call, recv_vars, clock_remotes, wire_vars, interval, plugin_call>>

\* A call of SharedClock::elapsed
ClockElapsed ==
    /\ LET r == clock_elapsed(shared_clock, now)
       IN  /\ shared_clock' = r.clock
           /\ clock_log' = [clock_log EXCEPT
                   !.op = "elapsed", !.changed = FALSE, !.ret = r.ret,
                   !.correct = elapsed_correct(shared_clock, now),
                   !.last_some = IF r.ret = -1 THEN @ ELSE r.ret,
                   !.prev_some = IF r.ret = -1 THEN @ ELSE clock_log.last_some]
    /\ UNCHANGED <<now, session_vars, store_vars, peer_frames, kept_call, div_call, recv_vars, clock_remotes, wire_vars, interval, plugin_call>>

NextClock == ClockTick \/ ClockStartMessage \/ ClockReceiveElapsed \/ ClockElapsed

(***************************************************************************)
(* The session's own SharedClock.  Session::clock_frame reads              *)
(* shared_clock.elapsed(); here the clock of the session on p is           *)
(* shared_clock, and elapsed[p] is what elapsed() returns at this instant. *)
(***************************************************************************)
\* Session::clock_frame's call of SharedClock::elapsed on `clock` at `current`.
SessionClockReads(p, clock, current) ==
    LET r == clock_elapsed(clock, current)
    IN  /\ r.ret <= MaxRealtimeElapsed
        /\ elapsed' = [elapsed EXCEPT ![p] = r.ret]
        /\ shared_clock' = r.clock

\* Time passes.
RealtimeTick(p) ==
    /\ p \in sessions
    /\ pc[p] # "panicked"
    /\ now < MaxRealtimeNow
    /\ now' = now + 1
    /\ SessionClockReads(p, shared_clock, now + 1)
    /\ UNCHANGED <<sessions, pc, ret, confirmed_states, inputs, host_at, unconfirmed,
                   remote_unconfirmed, host_state, nav, network, request, broke_on,
                   first_log, saved, horizon_moved, store_vars, peer_frames, clock_log,
                   kept_call, div_call, recv_vars, clock_remotes, wire_vars, interval,
                   plugin_call>>

\* SharedClock::start_message sets the start instant.
RealtimeStart(p) ==
    /\ p \in sessions
    /\ pc[p] # "panicked"
    /\ shared_clock.state.tag = "Synchronizing"
    /\ \E confident_start_in \in 0..min_start_move :
        LET u == update_start_time(shared_clock.state, now, now + confident_start_in)
        IN  SessionClockReads(p, [shared_clock EXCEPT !.state = u.state], now)
    /\ UNCHANGED <<sessions, pc, ret, confirmed_states, inputs, host_at, unconfirmed,
                   remote_unconfirmed, host_state, nav, network, request, broke_on,
                   first_log, saved, horizon_moved, store_vars, peer_frames, now, clock_log,
                   kept_call, div_call, recv_vars, clock_remotes, wire_vars, interval,
                   plugin_call>>

\* SharedClock::receive_message(from, Elapsed(amt)): the drift is adjusted
\* either way and the start instant may move.
RealtimeReceiveElapsed(p) ==
    /\ p \in sessions
    /\ pc[p] # "panicked"
    /\ \E change \in DriftChanges, has_rtt \in BOOLEAN :
       \E start_at \in (IF has_rtt THEN 0..(MaxRealtimeNow + min_start_move) ELSE {0}) :
        LET r == receive_elapsed(shared_clock, now, change, has_rtt, start_at)
        IN  /\ r.clock.drift.mag <= MaxRealtimeDrift
            /\ r.clock # shared_clock
            /\ SessionClockReads(p, r.clock, now)
    /\ UNCHANGED <<sessions, pc, ret, confirmed_states, inputs, host_at, unconfirmed,
                   remote_unconfirmed, host_state, nav, network, request, broke_on,
                   first_log, saved, horizon_moved, store_vars, peer_frames, now, clock_log,
                   kept_call, div_call, recv_vars, clock_remotes, wire_vars, interval,
                   plugin_call>>

(***************************************************************************)
(* time.rs NetworkQuality: the round-trip samples one clock keeps for one  *)
(* remote.  rtts is the set of the instants that key a sample (the         *)
(* durations are not kept), outgoing maps a ping id to the instant it was  *)
(* sent, pong_queue holds the ids of the pings to answer, ping_interval is *)
(* Interval::last (-1 is None), one tick being the 100 ms of a ping.       *)
(***************************************************************************)
\* The most samples remove_old_data leaves.
rtts_kept == 10
\* The least numbers of samples average_rtt and worst_case_rtt need.
average_needs == 3
worst_case_needs == 5

\* impl Default for NetworkQuality
NetworkQualityDefault ==
    [rtts |-> {}, outgoing |-> [id \in {} |-> 0], pong_queue |-> <<>>,
     ping_interval |-> -1, panic |-> "none"]

SetMin(S) == CHOOSE x \in S : \A y \in S : x <= y

\* Interval::is_time with `every` of one tick: whether it is time, and
\* Interval::last after the call.
is_time(last, current) ==
    IF last = -1 THEN [yes |-> TRUE, last |-> current]
    ELSE IF current - last < 1 THEN [yes |-> FALSE, last |-> last]
    ELSE [yes |-> TRUE, last |-> last + 1]

RECURSIVE pop_oldest(_)
\* The while loop of remove_old_data
pop_oldest(rtts) ==
    IF Cardinality(rtts) > rtts_kept THEN pop_oldest(rtts \ {SetMin(rtts)}) ELSE rtts

\* NetworkQuality::remove_old_data
remove_old_data(q) ==
    IF Cardinality(q.rtts) <= rtts_kept THEN q
    ELSE LET kept == pop_oldest(q.rtts)
             keep_after == SetMin(kept)
             stay == {id \in DOMAIN q.outgoing : ~(q.outgoing[id] >= keep_after)}
         IN  [q EXCEPT !.rtts = kept, !.outgoing = [id \in stay |-> q.outgoing[id]]]

\* A variant of NetworkQuality::average_rtt that is always Some.
average_rtt_always(q) == TRUE

\* NetworkQuality::average_rtt and worst_case_rtt: whether they are Some.
average_rtt_some(q) == Cardinality(q.rtts) >= average_needs
worst_case_rtt_some(q) == Cardinality(q.rtts) >= worst_case_needs

\* The ids of the pings of this side and of the remote side.
PingIds == 1..MaxOutgoing
RemotePingIds == {1}
\* NetworkAnalysisMessage: a Pong's remote_processing_time is either within
\* the time since the ping was sent or beyond it.
AnalysisMessages ==
    [type : {"Ping"}, data : RemotePingIds, processing : {"within"}]
        \cup [type : {"Pong"}, data : PingIds \cup {0}, processing : {"within", "beyond"}]

\* NetworkQuality::receive_message at the instant `current`
quality_receive(q0, message, current) ==
    LET q == remove_old_data(q0)
    IN  IF message.type = "Ping"
        THEN [q EXCEPT !.pong_queue = Append(@, message.data)]
        ELSE IF message.data \notin DOMAIN q.outgoing THEN q
        ELSE LET sent == [q EXCEPT !.outgoing =
                              [id \in DOMAIN q.outgoing \ {message.data} |-> q.outgoing[id]]]
             IN  IF message.processing = "beyond"
                 THEN [sent EXCEPT !.panic = "overflow when subtracting durations"]
                 ELSE [sent EXCEPT !.rtts = @ \cup {current}]

\* NetworkQuality::message at the instant `current`, `id` being the random
\* id of a new ping: the message (if any) and the tracker after it.
quality_message(q, id, current) ==
    IF q.pong_queue # <<>>
    THEN [msg |-> "Pong", q |-> [q EXCEPT !.pong_queue = Tail(@)]]
    ELSE LET t == is_time(q.ping_interval, current)
         IN  IF t.yes
             THEN [msg |-> "Ping",
                   q |-> [q EXCEPT !.ping_interval = t.last,
                                   !.outgoing = [i \in DOMAIN q.outgoing \cup {id} |->
                                                    IF i = id THEN current ELSE q.outgoing[i]]]]
             ELSE [msg |-> "None", q |-> [q EXCEPT !.ping_interval = t.last]]

IdleRemotes == clock_remotes = [r \in {} |-> NetworkQualityDefault]

\* Time passes for the trackers.
QualityTick ==
    /\ now < MaxQualityNow
    /\ now' = now + 1
    /\ UNCHANGED <<shared_clock, clock_log, clock_remotes, session_vars, store_vars, peer_frames,
                   kept_call, div_call, recv_vars, wire_vars, interval, plugin_call>>

\* The clock asks the tracker of remote r for a message.
QualityMessage(r) ==
    /\ clock_remotes[r].panic = "none"
    /\ \E id \in PingIds :
        /\ (id \in DOMAIN clock_remotes[r].outgoing => clock_remotes[r].pong_queue # <<>>)
        /\ \A i \in PingIds : i < id => i \in DOMAIN clock_remotes[r].outgoing
        /\ clock_remotes' = [clock_remotes EXCEPT ![r] = quality_message(@, id, now).q]
    /\ UNCHANGED <<clock_vars, session_vars, store_vars, peer_frames, kept_call, div_call,
                   recv_vars, wire_vars, interval, plugin_call>>

\* SharedClock::receive_message(from, ClockMessage::NetworkAnalysis(m))
QualityReceive(r) ==
    /\ clock_remotes[r].panic = "none"
    /\ \E m \in AnalysisMessages :
        /\ m.type = "Ping" => Len(clock_remotes[r].pong_queue) < MaxPongQueue
        /\ clock_remotes' = [clock_remotes EXCEPT ![r] = quality_receive(@, m, now)]
    /\ UNCHANGED <<clock_vars, session_vars, store_vars, peer_frames, kept_call, div_call,
                   recv_vars, wire_vars, interval, plugin_call>>

\* SharedClock::start_message while Synchronizing: nothing happens until every
\* remote has a worst_case_rtt.
SyncStartMessage ==
    /\ \A r \in DOMAIN clock_remotes : worst_case_rtt_some(clock_remotes[r])
    /\ ClockStartMessage

\* SharedClock::receive_message(r, ClockMessage::Elapsed(amt)): the start
\* moves when the tracker of the sender has an average_rtt.
SyncReceiveElapsed(r) ==
    /\ clock_remotes[r].panic = "none"
    /\ \E change \in DriftChanges, start_at \in StartInstants :
        LET e == receive_elapsed(shared_clock, now, change,
                                 average_rtt_some(clock_remotes[r]), start_at)
        IN  /\ e.clock.drift.mag <= MaxDrift
            /\ shared_clock' = e.clock
            /\ clock_log' = [clock_log EXCEPT !.op = "Elapsed", !.changed = e.changed,
                                              !.old = shared_clock.state, !.at_now = now]
    /\ UNCHANGED <<now, clock_remotes, session_vars, store_vars, peer_frames, kept_call,
                   div_call, recv_vars, wire_vars, interval, plugin_call>>

NextSync ==
    \/ ClockTick
    \/ SyncStartMessage
    \/ \E r \in DOMAIN clock_remotes :
        QualityMessage(r) \/ QualityReceive(r) \/ SyncReceiveElapsed(r)

NextQuality == QualityTick \/ \E r \in DOMAIN clock_remotes : QualityMessage(r) \/ QualityReceive(r)

(***************************************************************************)
(* time.rs Interval on its own: `last` is Interval::last (-1 is None),     *)
(* `every` the period; ret, at_now, fired_at and gap record the last call: *)
(* what it returned, when it was made, when a call last returned true and, *)
(* for a call that returned true, the time since the one before it.        *)
(***************************************************************************)
\* A variant of Interval::is_time that restarts the period at the call.
is_time_restart(last, every, current) ==
    IF last # -1 /\ current - last < every THEN [yes |-> FALSE, last |-> last]
    ELSE [yes |-> TRUE, last |-> current]

\* Interval::is_time for a period of `every`
is_time_every(last, every, current) ==
    IF last = -1 THEN [yes |-> TRUE, last |-> current]
    ELSE IF current - last < every THEN [yes |-> FALSE, last |-> last]
    ELSE [yes |-> TRUE, last |-> last + every]

\* Interval::new(every)
IntervalNew(every) ==
    [last |-> -1, every |-> every, ret |-> FALSE, at_now |-> -1, fired_at |-> -1, gap |-> -1]

IdleInterval == interval = IntervalNew(1)

IntervalTick ==
    /\ now < MaxIntervalNow
    /\ now' = now + 1
    /\ UNCHANGED <<interval, shared_clock, clock_log, session_vars, store_vars, peer_frames,
                   kept_call, div_call, recv_vars, clock_remotes, wire_vars, plugin_call>>

\* A call of Interval::is_time
IntervalIsTime ==
    /\ LET t == is_time_every(interval.last, interval.every, now)
       IN  interval' = [interval EXCEPT
               !.last = t.last, !.ret = t.yes, !.at_now = now,
               !.fired_at = IF t.yes THEN now ELSE @,
               !.gap = IF t.yes /\ interval.fired_at # -1 THEN now - interval.fired_at ELSE -1]
    /\ UNCHANGED <<clock_vars, session_vars, store_vars, peer_frames, kept_call, div_call,
                   recv_vars, clock_remotes, wire_vars, plugin_call>>

NextInterval == IntervalTick \/ IntervalIsTime

(***************************************************************************)
(* exponential_keeping.rs on its own: kept_set(total) next to the kept     *)
(* sets of the horizons after it, as its tests compare them.               *)
(***************************************************************************)
\* u32::saturating_add
saturating_add(a, b) == IF a + b > U32_MAX THEN U32_MAX ELSE a + b

\* The horizons kept_set is called with: the small ones and the last u32s.
KeptTotals == (0..MaxTotal) \cup {U32_MAX - 1, U32_MAX}

NoKeptCall == [total |-> 0, increment |-> 0, smaller |-> {}, larger |-> {}, next |-> {},
               done |-> FALSE]

\* No call of kept_set is made.
IdleKept == kept_call = NoKeptCall

InitKept ==
    kept_call \in {[NoKeptCall EXCEPT !.total = t, !.increment = i]
                        : t \in KeptTotals, i \in 0..MaxIncrement}

\* kept_set(total), kept_set(total + increment) and kept_set(total + 1)
KeptSet ==
    /\ ~kept_call.done
    /\ kept_call' = [kept_call EXCEPT
            !.smaller = kept_set(kept_call.total),
            !.larger = kept_set(saturating_add(kept_call.total, kept_call.increment)),
            !.next = kept_set(saturating_add(kept_call.total, 1)),
            !.done = TRUE]
    /\ UNCHANGED <<session_vars, store_vars, peer_frames, clock_vars, div_call, recv_vars, clock_remotes, wire_vars, interval, plugin_call>>

NextKept == KeptSet

(***************************************************************************)
(* utils::div_duration on its own.                                         *)
(***************************************************************************)
NoDivCall == [numerator |-> 0, denominator |-> 1, result |-> <<0, 0>>, done |-> FALSE]

\* No call of div_duration is made.
IdleDiv == div_call = NoDivCall

\* The denominators: the small ones, and the greatest Duration.
DivDenominators == (1..MaxDenominator) \cup {DURATION_MAX}

\* The numerators for a denominator: the small ones, the ones whose quotient
\* is one of the last u32s, and the greatest Duration.
DivNumerators(d) ==
    (0..MaxNumerator)
    \cup {n \in {d * q + r : q \in (U32_MAX - 2)..(U32_MAX + 1), r \in {0, 1, d - 1}} :
            n <= DURATION_MAX}
    \cup {DURATION_MAX}

InitDiv ==
    \E d \in DivDenominators : \E n \in DivNumerators(d) :
        div_call = [NoDivCall EXCEPT !.numerator = n, !.denominator = d]

\* div_duration(numerator, denominator)
DivDuration ==
    /\ ~div_call.done
    /\ div_call' = [div_call EXCEPT
            !.result = div_duration(div_call.numerator, div_call.denominator),
            !.done = TRUE]
    /\ UNCHANGED <<session_vars, store_vars, peer_frames, clock_vars, kept_call, recv_vars, clock_remotes, wire_vars, interval, plugin_call>>

NextDiv == DivDuration

(***************************************************************************)
(* plugin/warn_remote_mismatched_checksum.rs.  The two LRU caches hold     *)
(* 1024 frames each and never evict at the frames used here.               *)
(***************************************************************************)
plugin_id == "warn_remote_mismatched_checksum"

\* The bytes of a Message::FrameChecksum(frame, checksum), and bytes that
\* bincode does not decode as a Message.
FrameChecksum(frame, checksum) ==
    [tag |-> "FrameChecksum", frame |-> frame, checksum |-> checksum]
MalformedPayload == [tag |-> "Malformed", frame |-> 0, checksum |-> 0]

\* WarnRemoteMismatchedChecksum::with_addrs
with_addrs == [checksums |-> EmptyMap, remote_checksums |-> EmptyMap]

\* What a call on the plugin leaves: its state, and the panic it ended in.
PluginOk(plugin) == [plugin |-> plugin, panic |-> "none"]

\* A variant of check_frame_match that pops and compares but only warns.
check_frame_match_warn(plugin, frame) ==
    IF frame \notin DOMAIN plugin.checksums THEN PluginOk(plugin)
    ELSE PluginOk([plugin EXCEPT !.remote_checksums =
                      [a \in DOMAIN @ |-> MapRemove(@[a], frame)]])

\* WarnRemoteMismatchedChecksum::check_frame_match: every remote's checksum
\* of the frame is popped and asserted equal to ours.
check_frame_match(plugin, frame) ==
    IF frame \notin DOMAIN plugin.checksums THEN PluginOk(plugin)
    ELSE LET ours == plugin.checksums[frame]
             remotes == plugin.remote_checksums
             popped == [a \in DOMAIN remotes |-> MapRemove(remotes[a], frame)]
             mismatch == \E a \in DOMAIN remotes :
                            frame \in DOMAIN remotes[a] /\ remotes[a][frame] # ours
         IN  [plugin |-> [plugin EXCEPT !.remote_checksums = popped],
              panic |-> IF mismatch THEN "assert_eq" ELSE "none"]

\* SessionPlugin::receive of WarnRemoteMismatchedChecksum: the payload is
\* deserialized with unwrap(), then recorded and checked.
plugin_receive(plugin, from, payload) ==
    IF payload.tag = "Malformed" THEN [plugin |-> plugin, panic |-> "unwrap"]
    ELSE LET of_remote == IF from \in DOMAIN plugin.remote_checksums
                          THEN plugin.remote_checksums[from] ELSE EmptyMap
             put == MapInsert(of_remote, payload.frame, payload.checksum)
         IN  check_frame_match(
                 [plugin EXCEPT !.remote_checksums = MapInsert(@, from, put)],
                 payload.frame)

\* seahash::hash on the serialized states used here: equal bytes give equal
\* hashes, and two different states may collide.
Serialized == {<<0>>, <<1>>, <<1, 0>>}
seahash(serialized) == (Len(serialized) + serialized[1]) % 2

\* SessionPlugin::on_confirmed_frame of WarnRemoteMismatchedChecksum
on_confirmed_frame(plugin, frame, serialized) ==
    check_frame_match(
        [plugin EXCEPT !.checksums = MapInsert(@, frame, seahash(serialized))],
        frame)

\* A plugin on its own: the remotes that send it checksums, and the frames
\* and checksums they send.
PluginRemotes == {1, 2}
PluginFrames == 0..MaxPluginFrame
RemoteChecksums == {0, 1}

NoPluginCall ==
    [plugin |-> with_addrs, kind |-> "none", frame |-> 0, checksum |-> 0, from |-> 0,
     before |-> with_addrs, panic |-> "none"]
IdlePlugin == plugin_call = NoPluginCall

\* The session confirms a frame and hands its serialized state to the plugin.
PluginConfirmed ==
    /\ plugin_call.panic = "none"
    /\ \E frame \in PluginFrames, serialized \in Serialized :
        LET r == on_confirmed_frame(plugin_call.plugin, frame, serialized)
        IN  plugin_call' =
                [plugin |-> r.plugin, kind |-> "on_confirmed_frame", frame |-> frame,
                 checksum |-> seahash(serialized), from |-> 0,
                 before |-> plugin_call.plugin, panic |-> r.panic]
    /\ UNCHANGED <<session_vars, store_vars, peer_frames, clock_vars, kept_call, div_call,
                   recv_vars, clock_remotes, wire_vars, interval>>

\* A remote's FrameChecksum message reaches the plugin.
PluginReceive ==
    /\ plugin_call.panic = "none"
    /\ \E from \in PluginRemotes, frame \in PluginFrames, checksum \in RemoteChecksums :
        LET r == plugin_receive(plugin_call.plugin, from, FrameChecksum(frame, checksum))
        IN  plugin_call' =
                [plugin |-> r.plugin, kind |-> "receive", frame |-> frame,
                 checksum |-> checksum, from |-> from,
                 before |-> plugin_call.plugin, panic |-> r.panic]
    /\ UNCHANGED <<session_vars, store_vars, peer_frames, clock_vars, kept_call, div_call,
                   recv_vars, clock_remotes, wire_vars, interval>>

NextPlugin == PluginConfirmed \/ PluginReceive

(***************************************************************************)
(* Session::process_incoming_messages with every kind of datagram: from a  *)
(* stranger, undecodable, and each variant of the envelope.                *)
(***************************************************************************)
MalformedBytes == [type |-> "Malformed", map |-> EmptyMap, frame |-> 0]
ClockMsg == [type |-> "Clock", map |-> EmptyMap, frame |-> 0]
PluginMsg(id, payload) == [type |-> "Plugin", id |-> id, payload |-> payload]

\* An address that is none of the session's players.
Stranger == Cardinality(Peers)

RecvFrames == 0..MaxRecvFrame
RecvChecksums == {"x"}
RecvBodies ==
    {MalformedBytes, ClockMsg}
        \cup {InputsMsg([k \in {f} |-> v]) : f \in RecvFrames, v \in InputValues}
        \cup {UnconfirmedMsg(f) : f \in RecvFrames}
        \cup {PluginMsg(plugin_id, MalformedPayload)}
        \cup {PluginMsg(plugin_id, FrameChecksum(f, c)) : f \in RecvFrames, c \in RecvChecksums}

\* What socket.recv() can return to the session on p.
IncomingDatagrams(p) ==
    {Datagram(p, from, body) : from \in (Peers \ {p}) \cup {Stranger}, body \in RecvBodies}

\* The envelope's Plugin(id, bytes) goes to the plugin of that name.
dispatch_plugin(plugin, from, id, bytes) == plugin_receive(plugin, from, bytes)

NoRecv == [type |-> "none", known |-> FALSE, payload_ok |-> FALSE, changed |-> FALSE]
IdleRecv ==
    /\ plugins = [p \in Peers |-> with_addrs]
    /\ recv_log = NoRecv

\* One turn of the while loop of process_incoming_messages on the datagram m.
ProcessIncoming(p) ==
    /\ p \in sessions
    /\ pc[p] = "top"
    /\ \E m \in IncomingDatagrams(p) :
        LET known_addr == m.from \in DOMAIN player_addresses(p)
            player == player_addresses(p)[m.from]
            known == remote_unconfirmed[p]
        IN  /\ IF ~known_addr \/ m.body.type = "Malformed"
               THEN /\ UNCHANGED <<inputs, remote_unconfirmed, shared_clock, plugins>>
                    /\ Goto(p, "top")
               ELSE CASE m.body.type = "Inputs" ->
                        /\ inputs' = [inputs EXCEPT ![p] = merge_remote(@, player, m.body.map)]
                        /\ UNCHANGED <<remote_unconfirmed, shared_clock, plugins>>
                        /\ Goto(p, "top")
                      [] m.body.type = "Unconfirmed" ->
                        /\ remote_unconfirmed' =
                            [remote_unconfirmed EXCEPT ![p] =
                                MapInsert(known, player,
                                          IF player \in DOMAIN known /\ known[player] > m.body.frame
                                          THEN known[player] ELSE m.body.frame)]
                        /\ UNCHANGED <<inputs, shared_clock, plugins>>
                        /\ Goto(p, "top")
                      [] m.body.type = "Clock" ->
                        /\ \E change \in DriftChanges, has_rtt \in BOOLEAN, start_at \in StartInstants :
                            LET r == receive_elapsed(shared_clock, now, change, has_rtt, start_at)
                            IN  /\ r.clock.drift.mag <= MaxDrift
                                /\ shared_clock' = r.clock
                        /\ UNCHANGED <<inputs, remote_unconfirmed, plugins>>
                        /\ Goto(p, "top")
                      [] m.body.type = "Plugin" ->
                        LET r == dispatch_plugin(plugins[p], m.from, m.body.id, m.body.payload)
                        IN  /\ plugins' = [plugins EXCEPT ![p] = r.plugin]
                            /\ UNCHANGED <<inputs, remote_unconfirmed, shared_clock>>
                            /\ IF r.panic = "none" THEN Goto(p, "top") ELSE Panic(p, r.panic)
            /\ recv_log' = [type |-> m.body.type,
                            known |-> known_addr,
                            payload_ok |-> m.body.type = "Plugin" /\ m.body.payload.tag # "Malformed",
                            changed |-> <<inputs', remote_unconfirmed', shared_clock', plugins'>>
                                            # <<inputs, remote_unconfirmed, shared_clock, plugins>>]
    /\ UNCHANGED <<sessions, elapsed, confirmed_states, host_at, unconfirmed, host_state,
                   nav, network, first_log, saved, horizon_moved, store_vars, peer_frames,
                   now, clock_log, kept_call, div_call, clock_remotes, wire_vars, interval, plugin_call>>

NextReceive == \E p \in Peers : ProcessIncoming(p)

\* The parts of the model a specification does not exercise stay as built.
InitAux == InitClock /\ IdleKept /\ IdleDiv /\ IdleRecv /\ IdleRemotes /\ IdleWire /\ IdleInterval /\ IdlePlugin

(***************************************************************************)
(* Specification of the session driver: one session, whose remote peer    *)
(* runs the same input store and sends what its send_messages builds.      *)
(***************************************************************************)
Next ==
    \E p \in Peers :
        \/ Tick(p)
        \/ ReceiveMessage(p)
        \/ SendAndCapture(p)
        \/ SaveFrameZero(p)
        \/ AdvanceConfirmedHorizon(p)
        \/ NavigateSave(p)
        \/ NavigateMove(p)
        \/ AdvanceFirst(p)
        \/ StepTowardsRealtime(p)

\* The peer without a session captured at every frame, or at frame 1 and at
\* the last frame only.
PeerFrameSets == {1..MaxClockFrame, {1, MaxClockFrame}}

Init == InitSessions({0}) /\ InitStore /\ peer_frames \in PeerFrameSets /\ InitAux
Spec == Init /\ [][Next]_vars


(***************************************************************************)
(* The input store on its own: a session's calls into InputStorage, with   *)
(* any local captures (at realtime frames that never decrease) and any     *)
(* remote batches.                                                         *)
(***************************************************************************)
\* The local player and the remote player of the stand-alone store.
store_local == 0
store_remote == 1

\* The batches of a Message::Inputs: maps from frames to inputs, of at most
\* MaxBatch entries.
StoreBatches ==
    UNION {[S -> InputValues] : S \in {T \in SUBSET (0..MaxStoreFrame) : Cardinality(T) <= MaxBatch}}

\* Session::capture_inputs: InputStorage::capture_into(realtime, local_id),
\* then the host writes its input into the buffer it is given.
StoreCapture ==
    \E frame \in realtime..MaxStoreFrame, value \in InputValues :
        LET r == capture_into(store, frame, store_local, value)
        IN  /\ realtime' = frame
            /\ store' = r.inputs
            /\ last_op' = [NoOp EXCEPT !.op = "capture_into", !.player = store_local,
                                       !.frame = frame, !.ok = r.ok, !.before = store]
            /\ UNCHANGED <<session_vars, peer_frames, aux_vars>>

\* Session::process_incoming_messages on Message::Inputs:
\* InputStorage::merge_remote(player, map)
StoreMerge ==
    \E batch \in StoreBatches :
        /\ store' = merge_remote(store, store_remote, batch)
        /\ last_op' = [NoOp EXCEPT !.op = "merge_remote", !.player = store_remote,
                                   !.batch = batch, !.before = store]
        /\ UNCHANGED <<realtime, session_vars, peer_frames, aux_vars>>

\* Session::inputs(frame): InputStorage::at_frame, SparseInputs::at per player
StoreAt ==
    \E frame \in 0..(MaxStoreFrame + 1) :
        /\ last_op' = [NoOp EXCEPT !.op = "at_frame", !.frame = frame,
                                   !.read = at_frame(store, frame), !.before = store]
        /\ UNCHANGED <<store, realtime, session_vars, peer_frames, aux_vars>>

NextInputs == StoreCapture \/ StoreMerge \/ StoreAt

InitInputs == InitSessions({}) /\ InitStore /\ peer_frames = {} /\ InitAux
SpecInputs == InitInputs /\ [][NextInputs]_vars

(***************************************************************************)
(* The shared clock on its own: time passing, start messages, received     *)
(* Elapsed messages with any drift adjustment, and calls of elapsed().     *)
(***************************************************************************)
InitSharedClock == InitSessions({}) /\ InitStore /\ peer_frames = {} /\ InitAux
SpecClock == InitSharedClock /\ [][NextClock]_vars

(***************************************************************************)
(* The kept sets on their own.                                             *)
(***************************************************************************)
InitKeptSets ==
    InitSessions({}) /\ InitStore /\ peer_frames = {} /\ InitClock /\ InitKept /\ IdleDiv /\ IdleRecv
        /\ IdleRemotes /\ IdleWire /\ IdleInterval /\ IdlePlugin
SpecKept == InitKeptSets /\ [][NextKept]_vars

(***************************************************************************)
(* div_duration on its own.                                                *)
(***************************************************************************)
InitDivDuration ==
    InitSessions({}) /\ InitStore /\ peer_frames = {} /\ InitClock /\ IdleKept /\ InitDiv /\ IdleRecv
        /\ IdleRemotes /\ IdleWire /\ IdleInterval /\ IdlePlugin
SpecDiv == InitDivDuration /\ [][NextDiv]_vars

(***************************************************************************)
(* The session driver with its SharedClock in the place of the abstract    *)
(* clock: the start instant is set and moved and the drift adjusted while  *)
(* next_request runs.                                                      *)
(***************************************************************************)
\* The handler answers every request with Continue.
HandlerContinues == \A p \in Peers : request'[p].brk = "continue"

NextRealtime ==
    \E p \in Peers :
        \/ RealtimeTick(p)
        \/ RealtimeStart(p)
        \/ RealtimeReceiveElapsed(p)
        \/ ReceiveMessage(p)
        \/ SendAndCapture(p)
        \/ SaveFrameZero(p)
        \/ AdvanceConfirmedHorizon(p)
        \/ NavigateSave(p)
        \/ NavigateMove(p)
        \/ AdvanceFirst(p)
        \/ StepTowardsRealtime(p)

InitRealtime == InitSessions({0}) /\ InitStore /\ peer_frames = 1..MaxClockFrame /\ InitAux
SpecRealtime == InitRealtime /\ [][NextRealtime]_vars

(***************************************************************************)
(* The session driver with a handler that answers every request with       *)
(* Continue.                                                               *)
(***************************************************************************)
NextContinue ==
    \E p \in Peers :
        \/ Tick(p)
        \/ ReceiveMessage(p)
        \/ SendAndCapture(p) /\ HandlerContinues
        \/ SaveFrameZero(p) /\ HandlerContinues
        \/ AdvanceConfirmedHorizon(p)
        \/ NavigateSave(p) /\ HandlerContinues
        \/ NavigateMove(p) /\ HandlerContinues
        \/ AdvanceFirst(p) /\ HandlerContinues
        \/ StepTowardsRealtime(p) /\ HandlerContinues

SpecContinue == Init /\ [][NextContinue]_vars

(***************************************************************************)
(* The checksum plugin on its own.                                         *)
(***************************************************************************)
InitPlugin ==
    /\ InitSessions({}) /\ InitStore /\ peer_frames = {}
    /\ InitClock /\ IdleKept /\ IdleDiv /\ IdleRecv /\ IdleRemotes /\ IdleWire /\ IdleInterval
    /\ IdlePlugin
SpecPlugin == InitPlugin /\ [][NextPlugin]_vars

(***************************************************************************)
(* One session that only drains its socket.                                *)
(***************************************************************************)
InitReceive == InitSessions({0}) /\ InitStore /\ peer_frames = {} /\ InitAux
SpecReceive == InitReceive /\ [][NextReceive]_vars

(***************************************************************************)
(* The round-trip tracker of one remote on its own.                        *)
(***************************************************************************)
InitQuality ==
    /\ InitSessions({}) /\ InitStore /\ peer_frames = {}
    /\ InitClock /\ IdleKept /\ IdleDiv /\ IdleRecv /\ IdleWire /\ IdleInterval /\ IdlePlugin
    /\ clock_remotes = [r \in {1} |-> NetworkQualityDefault]
SpecQuality == InitQuality /\ [][NextQuality]_vars

(***************************************************************************)
(* A clock with one remote and the round-trip tracker of that remote.      *)
(***************************************************************************)
SpecSync == InitQuality /\ [][NextSync]_vars

(***************************************************************************)
(* An Interval on its own, with any period up to MaxEvery.                 *)
(***************************************************************************)
InitInterval ==
    /\ InitSessions({}) /\ InitStore /\ peer_frames = {}
    /\ InitClock /\ IdleKept /\ IdleDiv /\ IdleRecv /\ IdleRemotes /\ IdleWire /\ IdlePlugin
    /\ \E every \in 1..MaxEvery : interval = IntervalNew(every)
SpecInterval == InitInterval /\ [][NextInterval]_vars

(***************************************************************************)
(* The session driver with its socket in view: datagrams wait in the       *)
(* socket until recv() takes them, the remote peer announces horizons, and *)
(* the socket records what send_messages hands it.                         *)
(***************************************************************************)
WireTick(p) == elapsed[p] < MaxWireElapsed /\ Tick(p)

NextWire ==
    \E p \in Peers :
        \/ WireTick(p)
        \/ Arrive(p)
        \/ SocketReceive(p)
        \/ SendAndCapture(p)
        \/ SaveFrameZero(p)
        \/ AdvanceConfirmedHorizon(p)
        \/ NavigateSave(p)
        \/ NavigateMove(p)
        \/ AdvanceFirst(p)
        \/ StepTowardsRealtime(p)

InitWire ==
    /\ InitSessions({0}) /\ InitStore /\ peer_frames = {1}
    /\ InitClock /\ IdleKept /\ IdleDiv /\ IdleRecv /\ IdleRemotes /\ IdleInterval /\ IdlePlugin
    /\ peer_horizons = {0, 1}
    /\ pending = [p \in Peers |-> <<>>]
    /\ wire = [p \in Peers |-> Tapped]
SpecWire == InitWire /\ [][NextWire]_vars


(***************************************************************************)
(* Properties of the session driver (Spec)                                 *)
(***************************************************************************)
\* The call of next_request on p has returned and no other has started.
Returned(p) == ret[p].tag \in {"Break", "Continue"}

\* The input the host of player pl wrote for a frame: what it wrote at the
\* last frame at or before it at which it was asked (default_inputs for none).
captured_frames(p, pl) ==
    IF pl = p THEN (IF pl \in DOMAIN inputs[p] THEN DOMAIN inputs[p][pl].map ELSE {0})
    ELSE {0} \cup peer_frames
input_of(p, pl, frame) ==
    LET last == Max({k \in captured_frames(p, pl) : k <= frame})
    IN  IF last = 0 THEN default_inputs ELSE host_input(pl, last)

\* C1: every Advance tagged First carries, for every player, the input that
\* player's own host wrote for the frame (the last one it captured at or
\* before the frame): the remote player's as the remote peer holds it, under
\* any delay, reordering and repetition of its datagrams, and the local
\* player's as the local store holds it from then on.  Two peers that both
\* issued the First Advance of a frame were therefore given the same inputs.
C1_FirstAdvanceInputsAgree ==
    \A p \in sessions : \A e \in first_log[p] :
        /\ DOMAIN e[2] = Peers
        /\ \A pl \in Peers : e[2][pl] = input_of(p, pl, e[1])

\* First Advances were issued that carry an input other than the default for
\* the local player, and one for the remote player at a frame for which the
\* session was sent no input (the remote did not capture it, or compacted it).
C1_Witness ==
    /\ \E e \in first_log[0] : e[2][0] # default_inputs
    /\ \E e \in first_log[0] :
        /\ e[2][1] # default_inputs
        /\ e[1] \notin DOMAIN inputs[0][1].map

\* C2: next_request returns Continue(b) exactly when the handler answered
\* the break value b to a request of that call (the call ends there), and
\* Break(()) when the call ended without a break of the handler.
C2_ContinueIffHandlerBroke ==
    \A p \in sessions :
        /\ request[p].brk \in BreakValues =>
                ret[p] = [tag |-> "Continue", val |-> request[p].brk]
        /\ ret[p].tag = "Continue" => request[p].brk = ret[p].val
        /\ (Returned(p) /\ request[p].brk = "continue") => ret[p] = [tag |-> "Break", val |-> "()"]
        /\ Returned(p) <=> (pc[p] = "top" /\ ret[p].tag \notin {"none", "running"})

\* A call returned the break value the handler gave to a LoadFrom.
C2_Witness ==
    /\ ret[0] = [tag |-> "Continue", val |-> "b2"]
    /\ request[0].kind = "LoadFrom"

\* The request that p was just given is the one whose break ended p's
\* previous call.
SameRequestAgain(p) ==
    /\ request[p].kind # "none"
    /\ request[p].after.req = <<request[p].kind, request[p].frame>>

\* C3 as stated: when the handler breaks on a request, the next call issues
\* no request of the same kind and the same frame.
C3_AsStated == \A p \in sessions : ~SameRequestAgain(p)

\* C3, amended: when the handler breaks on a request its bookkeeping is in
\* place (the snapshot entry, the input entry, host_at, unconfirmed); the
\* first request of the next call is never that request, and the next call
\* issues no SaveTo and no CaptureLocalInput of that frame at all.  An Advance
\* or a LoadFrom of the same frame can follow later in the next call, once
\* the host was rolled back or has advanced again.
C3_NextCallResumes ==
    \A p \in sessions :
        /\ SameRequestAgain(p) =>
            /\ ~request[p].after.fresh
            /\ request[p].kind \in {"Advance", "LoadFrom"}
        /\ request[p].brk \in BreakValues =>
            /\ request[p].kind = "SaveTo" =>
                /\ request[p].frame \in DOMAIN confirmed_states[p]
                /\ confirmed_states[p][request[p].frame] = request[p].data
            /\ request[p].kind = "CaptureLocalInput" =>
                /\ p \in DOMAIN inputs[p]
                /\ request[p].frame \in DOMAIN inputs[p][p].map
                /\ inputs[p][p].map[request[p].frame] = request[p].data
            /\ request[p].kind = "LoadFrom" => host_at[p] = step_size * request[p].frame
            /\ request[p].kind = "Advance" =>
                /\ host_at[p] = step_size * (request[p].frame + 1)
                /\ request[p].data.confirmed = "First" => unconfirmed[p] = request[p].frame + 2

\* The call that follows a break on an Advance tagged First starts with
\* another request, on which the handler breaks again.
C3_Witness ==
    /\ request[0].after.fresh
    /\ request[0].after.req[1] = "Advance"
    /\ request[0].after.req[2] + 2 = unconfirmed[0]
    /\ request[0].kind \in {"SaveTo", "CaptureLocalInput"}
    /\ request[0].brk \in BreakValues

\* C4: every LoadFrom carries the bytes a SaveTo wrote for its frame, its
\* frame is the greatest stored frame <= the target of the rollback, and
\* after it host_at is step_size times that frame.
C4_LoadFromSavedSnapshot ==
    \A p \in sessions :
        request[p].kind = "LoadFrom" =>
            /\ <<request[p].frame, request[p].data.bytes>> \in saved[p]
            /\ request[p].frame \in DOMAIN confirmed_states[p]
            /\ request[p].frame <= request[p].data.target
            /\ \A k \in DOMAIN confirmed_states[p] :
                    k <= request[p].data.target => k <= request[p].frame
            /\ host_at[p] = step_size * request[p].frame

\* A rollback to a snapshot that is neither the one of Frame(0) nor the one
\* of the target, while older snapshots are stored.
C4_Witness ==
    /\ request[0].kind = "LoadFrom"
    /\ request[0].frame > 0
    /\ request[0].frame < request[0].data.target
    /\ request[0].data.bytes # <<>>

\* The frames of the snapshot ring.
ring(p) == DOMAIN confirmed_states[p]

\* C5 as stated: after a call that changed `unconfirmed`, the frames of the
\* snapshot ring are exactly kept_set(unconfirmed).
C5_AsStated ==
    \A p \in sessions :
        (Returned(p) /\ horizon_moved[p]) => ring(p) = kept_set(unconfirmed[p])

\* C5, amended: after a call that changed `unconfirmed` to U, the frames of
\* the snapshot ring are exactly kept_set(U - 1) as long as the frame U - 1
\* has no snapshot (the purge and the save for U wait for the navigation of
\* the next First Advance), and exactly kept_set(U) once it has one.
C5_RingIsKeptSetOfHorizon ==
    \A p \in sessions :
        (Returned(p) /\ horizon_moved[p]) =>
            ring(p) = IF unconfirmed[p] - 1 \in ring(p)
                      THEN kept_set(unconfirmed[p])
                      ELSE kept_set(unconfirmed[p] - 1)

\* A call that advanced the horizon and returned after the purge of a frame
\* that had been saved.
C5_Witness ==
    /\ Returned(0)
    /\ horizon_moved[0]
    /\ \E e \in saved[0] : e[1] \notin ring(0)
    /\ ring(0) # kept_set(unconfirmed[0])

\* C6: once SaveTo was issued for Frame(0), Frame(0) is in the snapshot ring
\* in every later state, and a rollback never fails to find a snapshot at or
\* before its target.
C6_FrameZeroStays ==
    \A p \in sessions :
        /\ (\E e \in saved[p] : e[1] = 0) => 0 \in ring(p)
        /\ pc[p] \in {"navigate", "navmove"} => \E k \in ring(p) : k <= nav[p].target
        /\ ret[p] # Panicked("should have at least one confirmed state")

\* A saved frame was purged from the ring, Frame(0) was not.
C6_Witness ==
    /\ \E e \in saved[0] : e[1] \notin ring(0)
    /\ 0 \in ring(0)
    /\ request[0].kind = "SaveTo"

(***************************************************************************)
(* Properties of the input store (SpecInputs)                              *)
(***************************************************************************)
\* The keys of a sparse map at or before a frame.
KeysUpTo(s, frame) == {k \in DOMAIN s.map : k <= frame}

\* The sparse map of the local player before the last operation, as
\* sparse_mut hands it to SparseInputs::capture_into.
LocalBefore == sparse_mut(last_op.before, store_local)[store_local]

\* C7: a read at frame f returns, for each player, the value stored at the
\* greatest key <= f of that player's map, and nothing (None) for a player
\* whose map has no key <= f.
C7_AtHoldsLast ==
    last_op.op = "at_frame" =>
        \A pl \in DOMAIN store :
            IF KeysUpTo(store[pl], last_op.frame) = {}
            THEN pl \notin DOMAIN last_op.read
            ELSE /\ pl \in DOMAIN last_op.read
                 /\ last_op.read[pl].val = store[pl].map[Max(KeysUpTo(store[pl], last_op.frame))]

\* A read between two keys of one player and before every key of the other.
C7_Witness ==
    /\ last_op.op = "at_frame"
    /\ \E pl \in DOMAIN store :
        /\ pl \in DOMAIN last_op.read
        /\ last_op.frame \notin DOMAIN store[pl].map
        /\ Cardinality(KeysUpTo(store[pl], last_op.frame)) >= 2
        /\ store[pl].map[Min(DOMAIN store[pl].map)] # last_op.read[pl].val
    /\ \E pl \in DOMAIN store : pl \notin DOMAIN last_op.read

\* C8 as stated: a read at f is Confirmed iff the map holds a key strictly
\* greater than f, and right after capture_into(f) the read at f is
\* Unconfirmed(captured).
C8_AsStated ==
    /\ last_op.op = "at_frame" =>
        \A pl \in DOMAIN last_op.read :
            is_confirmed(last_op.read[pl]) <=> \E k \in DOMAIN store[pl].map : k > last_op.frame
    /\ (last_op.op = "capture_into" /\ last_op.ok) =>
        at(store[store_local], last_op.frame).tag = "Unconfirmed"

\* C8, amended: a read at f is Confirmed iff the map holds a key at or after
\* f (the key f itself counts); right after capture_into(f) returned a buffer
\* the read at f is Confirmed(captured), and the reads at the frames after f
\* are Unconfirmed(captured).
C8_ConfirmedIffKeyAtOrAfter ==
    /\ last_op.op = "at_frame" =>
        \A pl \in DOMAIN last_op.read :
            is_confirmed(last_op.read[pl]) <=> \E k \in DOMAIN store[pl].map : k >= last_op.frame
    /\ (last_op.op = "capture_into" /\ last_op.ok) =>
        /\ at(store[store_local], last_op.frame) =
                Confirmed(store[store_local].map[last_op.frame])
        /\ at(store[store_local], last_op.frame + 1) =
                Unconfirmed(store[store_local].map[last_op.frame])

\* A capture that succeeded at a frame after which the map has no key.
C8_Witness ==
    /\ last_op.op = "capture_into"
    /\ last_op.ok
    /\ last_op.frame = Max(DOMAIN store[store_local].map)
    /\ store[store_local].map[last_op.frame] # default_inputs
    /\ is_confirmed(at(store[store_local], last_op.frame))

\* C9: the compaction that capture_into runs changes no read that was
\* Confirmed before it, neither its value nor its tag.
C9_CompactionKeepsConfirmedReads ==
    (last_op.op = "capture_into" /\ last_op.ok) =>
        \A f \in 0..(MaxStoreFrame + 1) :
            is_confirmed(at(LocalBefore, f)) =>
                /\ at(compact(LocalBefore), f) = at(LocalBefore, f)
                /\ at(store[store_local], f) = at(LocalBefore, f)

\* A capture whose compaction removed a key below which reads were Confirmed.
C9_Witness ==
    /\ last_op.op = "capture_into"
    /\ last_op.ok
    /\ \E k \in DOMAIN LocalBefore.map :
        /\ k \notin DOMAIN compact(LocalBefore).map
        /\ is_confirmed(at(LocalBefore, k))
        /\ at(store[store_local], k) = at(LocalBefore, k)

\* C10: merge_remote keeps the input a frame already has (the first writer
\* wins), adds the batch's input at every other frame of the batch, and
\* merging the same batch again changes nothing.
C10_MergeFirstWriterWins ==
    last_op.op = "merge_remote" =>
        LET old == IF last_op.player \in DOMAIN last_op.before
                   THEN last_op.before[last_op.player].map ELSE EmptyMap
            new == IF last_op.player \in DOMAIN store
                   THEN store[last_op.player].map ELSE EmptyMap
        IN  /\ DOMAIN new = DOMAIN old \cup DOMAIN last_op.batch
            /\ \A k \in DOMAIN old : new[k] = old[k]
            /\ \A k \in DOMAIN last_op.batch \ DOMAIN old : new[k] = last_op.batch[k]
            /\ merge_remote(store, last_op.player, last_op.batch) = store

\* A merge whose batch holds another input for a frame the map already had,
\* and an input for a frame it did not have.
C10_Witness ==
    /\ last_op.op = "merge_remote"
    /\ last_op.player \in DOMAIN last_op.before
    /\ \E k \in DOMAIN last_op.batch \cap DOMAIN last_op.before[last_op.player].map :
        last_op.batch[k] # last_op.before[last_op.player].map[k]
    /\ \E k \in DOMAIN last_op.batch : k \notin DOMAIN last_op.before[last_op.player].map

\* C11 as stated: every player that has a map holds default_inputs at
\* Frame(0), and reads default_inputs at Frame(0), whatever batches were
\* merged for that player.
C11_AsStated ==
    \A pl \in DOMAIN store :
        /\ 0 \in DOMAIN store[pl].map
        /\ store[pl].map[0] = default_inputs
        /\ at(store[pl], 0) = Confirmed(default_inputs)

(***************************************************************************)
(* Properties of the shared clock (SpecClock)                              *)
(***************************************************************************)
\* C12: each Some(d) that elapsed() returns is at least the Some(d) it
\* returned before, whatever time passed, whatever messages were received
\* and however the drift was adjusted in between; and last_elapsed is the
\* last value returned.
C12_ElapsedNeverDecreases ==
    /\ clock_log.prev_some # -1 => clock_log.last_some >= clock_log.prev_some
    /\ clock_log.last_some # -1 => shared_clock.last_elapsed = clock_log.last_some

\* elapsed() was called when the corrected time had fallen below the value
\* returned before (the drift moved backward), and returned Some.
C12_Witness ==
    /\ clock_log.op = "elapsed"
    /\ clock_log.ret # -1
    /\ clock_log.correct < clock_log.prev_some
    /\ shared_clock.drift.neg
    /\ shared_clock.drift.mag > 0

\* C13: a change of the start instant of a clock that is in Start(at) moves
\* it strictly later, and happens only while now <= at.
C13_StartOnlyMovesLater ==
    (clock_log.changed /\ clock_log.old.tag = "Start") =>
        /\ shared_clock.state.tag = "Start"
        /\ shared_clock.state.at > clock_log.old.at
        /\ ~(clock_log.at_now > clock_log.old.at)

\* A received Elapsed message moved the start instant of a started clock
\* whose elapsed() had already returned a time.
C13_Witness ==
    /\ clock_log.op = "Elapsed"
    /\ clock_log.changed
    /\ clock_log.old.tag = "Start"
    /\ clock_log.at_now > 0
    /\ clock_log.last_some # -1

(***************************************************************************)
(* Properties of the kept sets (SpecKept)                                  *)
(***************************************************************************)
\* The kept set of a horizon, when kept_set was called with it.
KeptOf(total, set) == (kept_call.done /\ kept_call.total = total) => kept_call.smaller = set

\* C14 as stated: kept_set returns the listed values, kept(0) = {} among them.
C14_AsStated ==
    /\ KeptOf(0, {})
    /\ KeptOf(1, {0})
    /\ KeptOf(2, {0, 1})
    /\ KeptOf(3, {0, 1, 2})
    /\ KeptOf(4, {0, 2, 3})
    /\ KeptOf(6, {0, 2, 4, 5})
    /\ KeptOf(8, {0, 4, 6, 7})
    /\ KeptOf(9, {0, 4, 6, 8})
    /\ KeptOf(10, {0, 4, 8, 9})
    /\ KeptOf(29, {0, 8, 16, 24, 26, 28})

\* The elements of a kept set below a horizon.
Below(S, n) == {x \in S : x < n}

\* Two elements of a set with no element of it between them.
Consecutive(S, a, b) == a \in S /\ b \in S /\ a < b /\ ~\E c \in S : a < c /\ c < b

\* C15: two consecutive elements of kept(U) are at most U / 2 apart.
C15_NoGapLarger ==
    kept_call.done =>
        \A a \in kept_call.smaller, b \in kept_call.smaller :
            Consecutive(kept_call.smaller, a, b) => b - a <= kept_call.total \div 2

\* A kept set with two consecutive elements exactly U / 2 apart.
C15_Witness ==
    /\ kept_call.done
    /\ kept_call.total >= 8
    /\ \E a \in kept_call.smaller, b \in kept_call.smaller :
        Consecutive(kept_call.smaller, a, b) /\ b - a = kept_call.total \div 2

\* C16: kept(U) has at most as many elements as kept(U + 1).
C16_NoFewer ==
    kept_call.done => Cardinality(kept_call.smaller) <= Cardinality(kept_call.next)

\* Two horizons in a row with kept sets of the same size, which differ.
C16_Witness ==
    /\ kept_call.done
    /\ kept_call.total >= 4
    /\ kept_call.total < U32_MAX
    /\ Cardinality(kept_call.smaller) = Cardinality(kept_call.next)
    /\ kept_call.smaller # kept_call.next

\* C17 as stated: every element of kept(U) below U is an element of kept(U + k).
C17_AsStated ==
    kept_call.done => Below(kept_call.smaller, kept_call.total) \subseteq kept_call.larger

\* C17, amended: of the elements of kept(U), Frame 0 is in every kept(U + k)
\* (U >= 1); the others can be dropped as the horizon grows, and no element
\* below U comes in that kept(U) did not have.
C17_OlderOnlyThinOut ==
    kept_call.done =>
        /\ kept_call.total >= 1 => 0 \in kept_call.smaller \cap kept_call.larger
        /\ Cardinality(Below(kept_call.larger, kept_call.total)) <=
                Cardinality(Below(kept_call.smaller, kept_call.total))
        /\ Below(kept_call.larger, kept_call.total) \ kept_call.smaller = {}

\* A later horizon whose kept set dropped an element of kept(U) and kept
\* another one, next to Frame 0.
C17_Witness ==
    /\ kept_call.done
    /\ kept_call.increment > 0
    /\ Below(kept_call.smaller, kept_call.total) \ kept_call.larger # {}
    /\ Cardinality(Below(kept_call.larger, kept_call.total)) >= 2

\* C18: every element of kept(U + k) below U is an element of kept(U).
C18_AllBelowIncluded ==
    kept_call.done => Below(kept_call.larger, kept_call.total) \subseteq kept_call.smaller

\* A later horizon that still wants three of the frames below U, and the
\* last u32 as a horizon.
C18_Witness ==
    /\ kept_call.done
    /\ kept_call.increment > 1
    /\ \/ Cardinality(Below(kept_call.larger, kept_call.total)) >= 3
       \/ /\ kept_call.total = U32_MAX - 1
          /\ Cardinality(Below(kept_call.larger, kept_call.total)) >= 2

(***************************************************************************)
(* Properties of div_duration (SpecDiv)                                    *)
(***************************************************************************)
\* C19 as stated: div_duration(n, d) returns (q, r) with d * q + r = n and
\* 0 <= r < d, for every n and every d > 0.
C19_AsStated ==
    div_call.done =>
        /\ div_call.result # MulOverflow
        /\ div_call.denominator * div_call.result[1] + div_call.result[2] = div_call.numerator
        /\ 0 <= div_call.result[2]
        /\ div_call.result[2] < div_call.denominator

(***************************************************************************)
(* Properties of the receive loop (SpecReceive)                            *)
(***************************************************************************)
\* The last datagram came from a stranger, or its envelope or its plugin
\* payload did not deserialize.
Undecodable ==
    /\ recv_log.type # "none"
    /\ \/ ~recv_log.known
       \/ recv_log.type = "Malformed"
       \/ recv_log.type = "Plugin" /\ ~recv_log.payload_ok

C20_EnvelopePart ==
    (recv_log.type # "none" /\ (~recv_log.known \/ recv_log.type = "Malformed"))
        => /\ \A p \in sessions : pc[p] # "panicked"
           /\ ~recv_log.changed

(***************************************************************************)
(* Progress of the confirmation horizon (Spec)                             *)
(***************************************************************************)
\* The session on p has panicked: the process is gone, and no action of
\* the driver is enabled at this pc, however often next_request would be
\* called and whatever arrives.
Stopped(p) == pc[p] = "panicked"

\* C21 as the spec states it: with the clocks started, next_request called
\* again and again and a channel that keeps delivering, the horizon of each
\* peer eventually exceeds every frame f.  A run refutes it when it ends in
\* a state in which the session has stopped for good below a frame the clock
\* has yet to reach: the horizon never exceeds that frame.
C21_AsStated ==
    \A p \in sessions : unconfirmed[p] < MaxClockFrame => ~Stopped(p)


(***************************************************************************)
(* Local capture (Spec)                                                    *)
(***************************************************************************)
\* The frames of the local player's map on p.
LocalKeys(p) == IF p \in DOMAIN inputs[p] THEN DOMAIN inputs[p][p].map ELSE {}

\* This step is send_messages and capture_inputs on p: the loop leaves its
\* top, or the call returns there.
CaptureStep(p) ==
    /\ pc[p] = "top"
    /\ elapsed' = elapsed
    /\ pc'[p] # "top" \/ ret'[p].tag \in {"Break", "Continue"}

\* C24: CaptureLocalInput is requested for a realtime frame only when that
\* frame is not Frame(0) and is later than every frame the local player has
\* an entry for, so at most once per frame, and the entry exists from then
\* on; when capture_into rejects the frame (Frame(0), or a frame that has an
\* entry) no request is made and the input store, map and compaction cursor,
\* is as it was.
C24_CaptureOncePerFrame ==
    [][\A p \in sessions :
         CaptureStep(p) =>
            IF request'[p].kind = "CaptureLocalInput"
            THEN /\ request'[p].frame = clock_frame(p)
                 /\ request'[p].frame # 0
                 /\ \A k \in LocalKeys(p) : k < request'[p].frame
                 /\ request'[p].frame \in LocalKeys(p)'
            ELSE /\ request'[p].kind = "none"
                 /\ \/ elapsed[p] < 0
                    \/ clock_frame(p) = 0
                    \/ clock_frame(p) \in LocalKeys(p)
                 /\ inputs'[p] = inputs[p]]_vars

\* A capture was requested for a frame after the first, on a store that
\* already held an entry of an earlier capture.
C24_Witness ==
    /\ request[0].kind = "CaptureLocalInput"
    /\ request[0].frame >= 2
    /\ \E k \in LocalKeys(0) : 0 < k /\ k < request[0].frame


(***************************************************************************)
(* Compaction (SpecInputs)                                                 *)
(***************************************************************************)
\* The local player's map after the last operation.
LocalAfter == store[store_local].map

\* The keys the compaction of the last capture removed.
Compacted == DOMAIN LocalBefore.map \ DOMAIN LocalAfter

\* C25: every entry that the compaction of a capture removes holds the value
\* of the nearest entry before it that is kept, and it is neither the entry
\* with the greatest key nor the one of Frame(0).
C25_CompactionRemovesRepeats ==
    (last_op.op = "capture_into" /\ last_op.ok) =>
        \A k \in Compacted :
            /\ k # 0
            /\ k # Max(DOMAIN LocalBefore.map)
            /\ \E j \in DOMAIN LocalAfter :
                /\ j < k
                /\ \A i \in DOMAIN LocalAfter : i < k => i <= j
                /\ LocalAfter[j] = LocalBefore.map[k]

\* A capture whose compaction removed an entry, while the newest entry repeated the
\* value before it and stayed.
C25_Witness ==
    /\ last_op.op = "capture_into" /\ last_op.ok
    /\ Compacted # {}
    /\ LET newest == Max(DOMAIN LocalBefore.map)
       IN  \E j \in DOMAIN LocalBefore.map :
            j < newest /\ LocalBefore.map[j] = LocalBefore.map[newest]
                       /\ \A i \in DOMAIN LocalBefore.map : i < newest => i <= j


(***************************************************************************)
(* The snapshot ring after a save (Spec)                                   *)
(***************************************************************************)
\* C26: right after a SaveTo request, every frame of the snapshot ring is in
\* kept_set(unconfirmed): the frames outside it were purged before the save.
C26_RingWithinKeptAfterSave ==
    \A p \in sessions :
        request[p].kind = "SaveTo" => ring(p) \subseteq kept_set(unconfirmed[p])

\* A SaveTo of a frame after the second, made after the purge of a frame
\* that had a snapshot and is no longer kept.
C26_Witness ==
    /\ request[0].kind = "SaveTo"
    /\ request[0].frame >= 2
    /\ request[0].frame \in ring(0)
    /\ \E e \in saved[0] : e[1] \notin kept_set(unconfirmed[0]) /\ e[1] \notin ring(0)


(***************************************************************************)
(* First Advances (Spec)                                                   *)
(***************************************************************************)
\* This step hands the handler of p an Advance tagged First.
FirstIssued(p) ==
    /\ request'[p] # request[p]
    /\ request'[p].kind = "Advance"
    /\ request'[p].data.confirmed = "First"

\* C27: an Advance tagged First is issued for the frame unconfirmed - 1,
\* with the host at that frame, and moves unconfirmed up by one whatever the
\* handler answers; unconfirmed changes in no other step.  The frames of the
\* First Advances are therefore 0, 1, 2, ... in order, each once, and
\* unconfirmed is 1 plus their number.
C27_FirstAdvancesInOrder ==
    [][\A p \in sessions :
         /\ FirstIssued(p) =>
                /\ request'[p].frame = unconfirmed[p] - 1
                /\ host_frame(p) = [frame |-> unconfirmed[p] - 1, rem |-> 0]
                /\ unconfirmed'[p] = unconfirmed[p] + 1
         /\ unconfirmed'[p] # unconfirmed[p] => FirstIssued(p)
         /\ {e[1] : e \in first_log'[p]} = 0..(unconfirmed'[p] - 2)
         /\ Cardinality(first_log'[p]) = unconfirmed'[p] - 1]_vars

\* The handler broke on the First Advance of a frame after Frame(0), and the
\* horizon moved all the same.
C27_Witness ==
    /\ request[0].kind = "Advance"
    /\ request[0].data.confirmed = "First"
    /\ request[0].frame >= 1
    /\ request[0].brk # "continue"
    /\ unconfirmed[0] = request[0].frame + 2

(***************************************************************************)
(* The order of the steps of one turn of the loop of next_request, and     *)
(* what send_messages hands to the socket (SpecWire).                      *)
(***************************************************************************)
\* The place of each position of the driver in the order drain, send and
\* capture, frame-0 save, horizon advance, realtime step.
StepRank(position) ==
    IF position = "top" THEN 0
    ELSE IF position = "save0" THEN 1
    ELSE IF position \in {"horizon", "navigate", "navmove"} THEN 2
    ELSE 3

RequestIssued(p) == request'[p] # request[p] /\ request'[p].kind # "none"

\* The step that ends the drain: send_messages, then capture_inputs.
SendStep(p) == pc[p] = "top" /\ pending'[p] = pending[p] /\ elapsed'[p] = elapsed[p]

UnconfirmedSent(w) == {d.body.frame : d \in {x \in w.datagrams : x.body.type = "Unconfirmed"}}

\* C22: the driver goes through drain, send and capture, frame-0 save,
\* horizon advance and realtime step in this order and back to the drain; it
\* takes datagrams from the socket only in the drain, leaves the drain (and
\* issues a request) only when the socket is empty, and the Unconfirmed it
\* sends carries unconfirmed - 1 as it is before the horizon advance, which
\* comes later in the turn.
C22_StepOrder ==
    [][\A p \in sessions :
        /\ pc'[p] \in {"top", "panicked"} \/ StepRank(pc'[p]) >= StepRank(pc[p])
        /\ (pc[p] = "step" /\ pc'[p] = "top") \/ pc'[p] # "top" \/ pc[p] = "top"
              \/ ret'[p].tag \in {"Break", "Continue"}
        /\ pending'[p] # pending[p] /\ Len(pending'[p]) < Len(pending[p])
              => pc[p] = "top" /\ ~RequestIssued(p) /\ wire'[p] = wire[p]
        /\ SendStep(p) => pending[p] = <<>>
        /\ RequestIssued(p) => (pc[p] = "top" => SendStep(p))
        /\ wire'[p] # wire[p] => SendStep(p)
        /\ (SendStep(p) /\ wire'[p].fired)
              => /\ UnconfirmedSent(wire'[p]) = {unconfirmed[p] - 1}
                 /\ unconfirmed'[p] = unconfirmed[p]
        /\ unconfirmed'[p] # unconfirmed[p] => StepRank(pc[p]) = 2]_vars

\* A datagram waits in the socket while the driver, past the drain, has
\* moved the horizon beyond the one it announced in this turn.
C22_Witness ==
    \E p \in sessions :
        /\ pc[p] \notin {"top", "panicked"}
        /\ pending[p] # <<>>
        /\ wire[p].fired
        /\ \E f \in UnconfirmedSent(wire[p]) : f < unconfirmed[p] - 1

\* The host was rolled back below last_confirmed and is replayed towards it.
Replaying(p) == host_frame(p).frame < unconfirmed[p] - 1

\* C28: once the driver has rolled the host back below last_confirmed = L, it
\* goes on with one Advance per frame up to L, each for the frame the host is
\* at, loads no other snapshot on the way, and does not stop before the
\* Advance at L.
C28_AsStated ==
    [][\A p \in sessions : Replaying(p) =>
        /\ pc'[p] # "panicked"
        /\ host_frame(p)'.frame >= host_frame(p).frame
        /\ unconfirmed'[p] = unconfirmed[p]
        /\ RequestIssued(p) =>
              /\ request'[p].kind # "LoadFrom"
              /\ request'[p].kind = "Advance" => request'[p].frame = host_frame(p).frame]_vars

\* The local player's map as send_messages finds it or creates it.
LocalMap(p) ==
    IF p \in DOMAIN inputs[p] THEN inputs[p][p].map ELSE MapInsert(EmptyMap, 0, default_inputs)

LocalSince(p, f) == [k \in {j \in DOMAIN LocalMap(p) : j >= f} |-> LocalMap(p)[k]]

\* C29: each time the send interval fires, every remote peer is sent an
\* Inputs message, which holds the local entries with frame >=
\* remote_unconfirmed of that peer, and every peer is sent
\* Unconfirmed(unconfirmed - 1).
C29_AsStated ==
    [][\A p \in sessions : (SendStep(p) /\ wire'[p].fired) =>
        /\ \A q \in Peers \ {p} :
            \E d \in wire'[p].datagrams :
                /\ d.to = address_of(p, q)
                /\ d.body.type = "Inputs"
                /\ q \in DOMAIN remote_unconfirmed[p]
                      => d.body.map = LocalSince(p, remote_unconfirmed[p][q])
        /\ \A addr \in DOMAIN player_addresses(p) :
            Datagram(addr, p, UnconfirmedMsg(unconfirmed[p] - 1)) \in wire'[p].datagrams]_vars

\* C29, amended: each time the send interval fires, the socket is handed
\* exactly one Inputs message for every player that has an entry in
\* remote_unconfirmed, holding the local entries with frame >= that entry,
\* and one Unconfirmed(unconfirmed - 1) for every address; a player without
\* an entry is sent no Inputs.
C29_InputsToKnownHorizons ==
    [][\A p \in sessions : (SendStep(p) /\ wire'[p].fired) =>
        wire'[p].datagrams =
            {Datagram(address_of(p, q), p, InputsMsg(LocalSince(p, remote_unconfirmed[p][q])))
                : q \in DOMAIN remote_unconfirmed[p]}
            \cup {Datagram(addr, p, UnconfirmedMsg(unconfirmed[p] - 1))
                    : addr \in DOMAIN player_addresses(p)}]_vars

\* An Inputs message was sent that leaves out the entries below the
\* horizon the remote announced.
C29_Witness ==
    \E p \in sessions :
        /\ wire[p].fired
        /\ \E d \in wire[p].datagrams :
            /\ d.body.type = "Inputs"
            /\ DOMAIN d.body.map # {}
            /\ 0 \notin DOMAIN d.body.map
            /\ p \in DOMAIN inputs[p] /\ 0 \in DOMAIN inputs[p][p].map

LeavesSynchronizing ==
    shared_clock.state.tag = "Synchronizing" /\ shared_clock'.state.tag = "Start"

C32_AsStated == (interval.ret /\ interval.gap # -1) => interval.gap >= interval.every

\* C32, amended: the first call returns true and anchors the interval at the
\* instant of the call; a later call returns true exactly when a period or
\* more has passed since the anchor, and then moves the anchor on by exactly
\* one period, so the anchor never passes the instant of the call; a call
\* that returns false leaves the anchor where it is.
C32_FiresOncePerAnchoredPeriod ==
    [][interval' # interval =>
        /\ interval'.at_now = now
        /\ interval.last = -1 => interval'.ret /\ interval'.last = now
        /\ interval.last # -1 =>
              /\ interval'.ret <=> now - interval.last >= interval.every
              /\ interval'.ret => interval'.last = interval.last + interval.every
              /\ ~interval'.ret => interval'.last = interval.last
        /\ interval'.last <= now]_vars

\* Two calls less than a period apart both returned true, the second one
\* catching up on a period that was missed.
C32_Witness ==
    /\ interval.ret
    /\ interval.gap # -1
    /\ interval.gap < interval.every
    /\ interval.last < interval.at_now

(***************************************************************************)
(* The round-trip tracker on its own (SpecQuality).                        *)
(***************************************************************************)
\* A receive that dropped the oldest sample of the tracker of r.
Pruned(r) ==
    /\ clock_remotes[r].rtts # {}
    /\ SetMin(clock_remotes[r].rtts) \notin clock_remotes'[r].rtts

\* The oldest sample the tracker of r retains over the step.
OldestRetained(r) == SetMin(clock_remotes[r].rtts \cap clock_remotes'[r].rtts)

\* C31: when a receive prunes, the outstanding pings sent before the oldest
\* retained sample are removed, and one sent after it stays or, being the
\* ping this receive answers, yields the sample of this instant.
C31_AsStated ==
    [][\A r \in DOMAIN clock_remotes : Pruned(r) =>
        \A id \in DOMAIN clock_remotes[r].outgoing :
            /\ clock_remotes[r].outgoing[id] < OldestRetained(r)
                  => id \notin DOMAIN clock_remotes'[r].outgoing
            /\ clock_remotes[r].outgoing[id] > OldestRetained(r)
                  => \/ id \in DOMAIN clock_remotes'[r].outgoing
                     \/ now \in clock_remotes'[r].rtts
                     \/ clock_remotes'[r].panic # "none"]_vars

\* C40: no Pong makes the subtraction of its remote_processing_time from the
\* round trip underflow.
C40_AsStated == \A r \in DOMAIN clock_remotes : clock_remotes[r].panic = "none"

\* C30: the samples kept for a remote never number more than 10.
C30_AsStated == \A r \in DOMAIN clock_remotes : Cardinality(clock_remotes[r].rtts) <= rtts_kept

(***************************************************************************)
(* C33.  Checksum plugin: a call of on_confirmed_frame or receive for a    *)
(* frame ends in the hard assertion exactly when, with the call's hash     *)
(* recorded, the plugin holds a local hash for that frame and some remote's *)
(* hash for it differs, whichever of the two came first; when it does not   *)
(* fire and a local hash is held, no remote entry for the frame is left,    *)
(* and a running plugin never holds both a local and a remote hash of one   *)
(* frame.                                                                   *)
(***************************************************************************)
LocalHash ==
    IF plugin_call.kind = "on_confirmed_frame" THEN plugin_call.checksum
    ELSE IF plugin_call.frame \in DOMAIN plugin_call.before.checksums
         THEN plugin_call.before.checksums[plugin_call.frame]
         ELSE -1

RemoteHash(a) ==
    IF plugin_call.kind = "receive" /\ plugin_call.from = a THEN plugin_call.checksum
    ELSE IF /\ a \in DOMAIN plugin_call.before.remote_checksums
            /\ plugin_call.frame \in DOMAIN plugin_call.before.remote_checksums[a]
         THEN plugin_call.before.remote_checksums[a][plugin_call.frame]
         ELSE -1

\* C33: the assertion fires exactly on a local and a remote hash of the
\* call's frame that differ; otherwise the matched remote entry is removed.
C33_MismatchAsserts ==
    plugin_call.kind # "none" =>
        /\ plugin_call.panic = "assert_eq"
              <=> /\ LocalHash # -1
                  /\ \E a \in PluginRemotes : RemoteHash(a) \notin {-1, LocalHash}
        /\ (plugin_call.panic = "none" /\ LocalHash # -1) =>
              \A a \in DOMAIN plugin_call.plugin.remote_checksums :
                  plugin_call.frame \notin DOMAIN plugin_call.plugin.remote_checksums[a]
        /\ plugin_call.panic = "none" =>
              \A a \in DOMAIN plugin_call.plugin.remote_checksums :
                  DOMAIN plugin_call.plugin.remote_checksums[a]
                      \cap DOMAIN plugin_call.plugin.checksums = {}

\* The remote's hash came first and the local confirmation of the frame
\* disagrees with it.
C33_Witness ==
    /\ plugin_call.kind = "on_confirmed_frame"
    /\ plugin_call.panic = "assert_eq"
    /\ \E a \in PluginRemotes : RemoteHash(a) \notin {-1, LocalHash}

\* The local hash came first and a remote's message disagrees with it.
LocalFirstMismatch ==
    /\ plugin_call.kind = "receive"
    /\ plugin_call.panic = "assert_eq"
    /\ plugin_call.frame \in DOMAIN plugin_call.before.checksums

\* Equal hashes: the remote entry is matched and removed without the assertion.
EqualHashesMatched ==
    /\ plugin_call.kind # "none"
    /\ plugin_call.panic = "none"
    /\ \E a \in PluginRemotes : RemoteHash(a) = LocalHash /\ LocalHash # -1

(***************************************************************************)
(* C35.  Whenever advance_confirmed_horizon computes                       *)
(* host_frame - (unconfirmed - 1), that is with the clock started and the  *)
(* host behind the clock, the host frame is at least unconfirmed - 1, so   *)
(* the unsigned subtraction does not underflow.                            *)
(***************************************************************************)
ComputesBehind(p) ==
    /\ p \in sessions
    /\ pc[p] = "horizon"
    /\ elapsed[p] >= 0
    /\ host_frame(p).frame < clock_frame(p)

\* C35 as stated: where advance_confirmed_horizon subtracts, the host frame
\* is at least unconfirmed - 1.
C35_AsStated ==
    \A p \in Peers : ComputesBehind(p) => host_frame(p).frame >= unconfirmed[p] - 1

(***************************************************************************)
(* C36.  The host frame never exceeds the realtime frame the clock         *)
(* reports: whenever the clock gives a time, host_frame <= clock_frame, and *)
(* step_towards_realtime never takes its 'advanced too far' branch, also    *)
(* after the start instant was moved or the drift adjusted backward.        *)
(***************************************************************************)
C36_HostNotAheadOfClock ==
    \A p \in sessions :
        /\ elapsed[p] >= 0 => host_frame(p).frame <= clock_frame(p)
        /\ ret[p].tag # "panic" \/ ret[p].val = "attempt to subtract with overflow"

\* step_towards_realtime compares a host that has reached the clock's frame
\* while the clock, adjusted backward, would by itself report an earlier time.
C36_Witness ==
    \E p \in sessions :
        /\ pc[p] = "step"
        /\ elapsed[p] >= 0
        /\ host_frame(p).frame = clock_frame(p)
        /\ host_frame(p).frame >= 1
        /\ elapsed_correct(shared_clock, now) < shared_clock.last_elapsed

(***************************************************************************)
(* C37.  Every snapshot stored for a frame f holds a confirmed state: the  *)
(* state saved is the frame-0 state advanced once for each of the frames   *)
(* 0..f-1 with the inputs of that frame's First Advance.  A SaveTo is only *)
(* issued for a frame at or below unconfirmed - 1, and an Advance tagged   *)
(* Unconfirmed only for a frame at or above it, so no state reached        *)
(* through an Unconfirmed Advance is saved.                                *)
(***************************************************************************)
\* The snapshot s = <<frame, bytes>> of p is the history of the First Advances
\* of the frames below its frame.
SavedConfirmed(p, s) ==
    /\ Len(s[2]) = s[1]
    /\ \A i \in 1..s[1] : <<i - 1, s[2][i]>> \in first_log[p]

\* This step hands the handler of p a request of this kind.
Issued(p, kind) == request'[p] # request[p] /\ request'[p].kind = kind

\* C37: every saved snapshot is the history of the First Advances below its
\* frame; SaveTo only at or below unconfirmed - 1, Unconfirmed only at or above.
C37_SnapshotsAreConfirmed ==
    /\ [](\A p \in sessions : \A s \in saved[p] : SavedConfirmed(p, s))
    /\ [][\A p \in sessions :
             /\ Issued(p, "SaveTo") => request'[p].frame <= unconfirmed[p] - 1
             /\ (Issued(p, "Advance") /\ request'[p].data.confirmed = "Unconfirmed")
                    => request'[p].frame >= unconfirmed[p] - 1]_vars

\* A snapshot of a frame after the second is saved whose state holds an
\* input other than the default one.
C37_Witness ==
    /\ request[0].kind = "SaveTo"
    /\ request[0].frame >= 2
    /\ \E i \in 1..request[0].frame :
            \E pl \in DOMAIN request[0].data[i] : request[0].data[i][pl] # default_inputs

(***************************************************************************)
(* C38.  Confirmed inputs are stable: once at_frame(f) is fully populated  *)
(* with every entry Confirmed, no step (local capture, compaction, merge   *)
(* of a batch however late or often it arrives) changes the value it       *)
(* returns for a player, or leaves it less than fully confirmed.           *)
(***************************************************************************)
StableAt(p, f) ==
    LET pi == at_frame(inputs[p], f)
        pj == at_frame(inputs'[p], f)
    IN  is_fully_confirmed(pi, remote_count(p)) =>
            /\ is_fully_confirmed(pj, remote_count(p))
            /\ \A pl \in DOMAIN pi : pj[pl].val = pi[pl].val

\* C38: no step that changes the input store changes a fully confirmed
\* read.
C38_ConfirmedInputsStable ==
    [][\A p \in sessions :
         inputs'[p] # inputs[p] => \A f \in 0..MaxClockFrame : StableAt(p, f)]_vars

\* A frame after the first, fully confirmed with an input other than the
\* default one, has had its First Advance: captures, compactions and merges
\* of old and new batches have followed its confirmation.
C38_Witness ==
    \E f \in 1..MaxClockFrame :
        LET pi == at_frame(inputs[0], f)
        IN  /\ is_fully_confirmed(pi, remote_count(0))
            /\ \E pl \in DOMAIN pi : pi[pl].val # default_inputs
            /\ unconfirmed[0] > f + 1

(***************************************************************************)
(* C39.  An Advance tagged Subsequent is only issued for a frame that has  *)
(* already had its First Advance, and an Advance that is not the First one *)
(* for a frame at or beyond unconfirmed - 1 is tagged Unconfirmed.         *)
(***************************************************************************)
C39_AsStated ==
    [][\A p \in sessions :
         (Issued(p, "Advance") /\ request'[p].data.confirmed # "First") =>
            /\ request'[p].data.confirmed = "Subsequent"
                    => \E e \in first_log[p] : e[1] = request'[p].frame
            /\ request'[p].frame >= unconfirmed[p] - 1
                    => request'[p].data.confirmed = "Unconfirmed"]_vars

(***************************************************************************)
(* C34.  next_request terminates: with a handler that never breaks, every  *)
(* step of the call, taken while the clock stands still and no datagram    *)
(* arrives, either returns Break(()) (with the host at the clock's frame   *)
(* when the clock has started) or goes on with a strictly smaller rank,    *)
(* a natural number; no step panics.                                       *)
(***************************************************************************)
\* This step is one of next_request on p while neither the clock nor the
\* socket acts: the clock stands still, and it is not a turn of the drain,
\* which stays at the top of the loop.
CallMoves(p) ==
    /\ elapsed'[p] = elapsed[p]
    /\ ~(pc[p] = "top" /\ pc'[p] = "top" /\ ret'[p].tag = "running")

\* The frame of the clock, with the clock started.
RealtimeFrame(p) == elapsed[p] \div step_size

\* What is left of a call: the frames the horizon can still pass, then, for
\* this horizon, the way to the clock's frame (rollback, replay, the First
\* Advance, the realtime steps), then the position in the turn of the loop.
RankInNavigate(p) ==
    (IF host_frame(p).frame > nav[p].target THEN 20
     ELSE 4 * (nav[p].target - host_frame(p).frame))
        + (IF pc[p] = "navigate" THEN 2 ELSE 1)

\* try_advance has no inputs for the host's frame (no player has a map yet,
\* the clock having left Frame(0) after capture_inputs): the turn ends
\* without an Advance and the next one captures.
NothingToAdvance(p) ==
    /\ host_frame(p).frame < RealtimeFrame(p)
    /\ DOMAIN at_frame(inputs[p], host_frame(p).frame) = {}

RankOutside(p) ==
    24 + 8 * (RealtimeFrame(p) - host_frame(p).frame)
       + (CASE pc[p] = "top" -> 4
            [] pc[p] = "save0" -> IF NothingToAdvance(p) THEN 7 ELSE 3
            [] pc[p] = "horizon" -> IF NothingToAdvance(p) THEN 6 ELSE 2
            [] OTHER -> IF NothingToAdvance(p) THEN 5 ELSE 1)

Rank(p) ==
    64 * (MaxClockFrame + 2 - unconfirmed[p])
        + (IF pc[p] \in {"navigate", "navmove"} THEN RankInNavigate(p) ELSE RankOutside(p))

InCall(p) == ret[p].tag = "running"

\* C34: every step of a call returns Break(()) with the host at the clock's
\* frame, or goes on with a smaller rank.
C34_CallTerminates ==
    /\ [](\A p \in sessions : InCall(p) => Rank(p) >= 0)
    /\ [][\A p \in sessions :
             CallMoves(p) =>
                \/ /\ ret'[p] = [tag |-> "Break", val |-> "()"]
                   /\ elapsed[p] >= 0 =>
                        host_frame(p)' = [frame |-> RealtimeFrame(p), rem |-> 0]
                \/ /\ ret'[p].tag = "running"
                   /\ elapsed[p] >= 0
                   /\ Rank(p)' < Rank(p)]_vars

\* A call has returned with the host at the clock's frame, after
\* moving the horizon.
C34_Witness ==
    /\ ret[0] = [tag |-> "Break", val |-> "()"]
    /\ elapsed[0] >= 0
    /\ host_frame(0) = [frame |-> RealtimeFrame(0), rem |-> 0]
    /\ RealtimeFrame(0) >= 2
    /\ horizon_moved[0]
    /\ unconfirmed[0] >= 3

====
